---- MODULE Spec2Model ----
(***************************************************************************)
(* Command arbitration and execution engine of the Tello teleoperation     *)
(* front-end.  The repository holds three application variants that share  *)
(* the same design:                                                        *)
(*   "cli"  src/drone_control.py   (console application, module globals)   *)
(*   "gui"  src/drone_gui.py       (monolithic Tk application, DroneApp)   *)
(*   "mod"  src/gui/*.py           (modular Tk application: CommandHandler,*)
(*                                  GestureProcessor, SpeechHandler)       *)
(* The variant is fixed at start-up; every handler is modelled per variant.*)
(***************************************************************************)
EXTENDS Integers, Sequences, FiniteSets, TLC

VARIABLES
  variant,          \* which application is running
  gesture_model,    \* the gesture classifier loaded (drone_control.py:41-49)
  active_modality,  \* "idle" | "gesture" | "audio" | "vlm"
  drone_in_air,     \* the Sink's FlightState flag
  is_flying,        \* the vehicle's own flag (tello.is_flying), set by the transport
  is_connected,     \* app.drone.is_connected, read by the watchdog
  stop_event,       \* the process-wide shutdown signal
  command_queue,    \* the Command Queue, oldest item first
  put_waiting,      \* the item of a blocked command_queue.put(), "" if none
  is_listening,     \* SpeechHandler.is_listening
  temp_gesture,     \* the label of the current run of gesture frames
  gesture_count,    \* the counter of that run
  cooldown_over,    \* more than gesture_cooldown has passed since last_gesture_time
  just_executed,    \* observation: an accepted gesture was executed, 0.5 s have not passed
  reset_pending,    \* scheduled reset_gesture_rc callbacks (root.after(500, ...))
  pc,               \* a Sink call in progress on each thread
  enq,              \* where each producer thread is in its drop-oldest enqueue
  processor_thread, \* CommandHandler.processor_thread: "none" or the last Thread created
  processors,       \* how many command_processor threads of CommandHandler are alive
  processor_stop,   \* CommandHandler.stop_event
  last,             \* observation: the operation that just ran, the state it saw, its result
  prev,             \* observation: the operation before it
  calls,            \* observation: the transport calls the last operation issued
  q_before,         \* observation: the Command Queue before the last operation
  run,              \* observation: the run of consecutive accepted frames of one label
  hist,             \* observation: the last two takeoff/land calls that succeeded
  now,              \* time.time(), in seconds
  last_vlm_command_time, \* when the last vision query was dispatched
  last_ping_time,   \* when keep_connection_alive last reached the vehicle
  frame_queue,      \* the Frame Relay: queue.Queue(maxsize=1), frames by number
  capture,          \* where the capture loop is in its put on the Frame Relay
  frame_no,         \* the number of the frame captured last
  taken,            \* observation: the number of the frame the vision path took last
  tasks,            \* where each background task is: "ready", "blocked" or "exited"
  keep_alive_active, \* DroneApp.keep_alive_active
  shutdown_log,     \* observation: the steps the shutdown sequence has performed
  scenario,         \* observation: the processor rounds that followed the voice script
  vlm_call          \* observation: the Frame Relay and the model call of the last round

queueVars == <<command_queue, put_waiting, is_listening>>

gestureVars ==
  <<temp_gesture, gesture_count, cooldown_over, just_executed, reset_pending, run>>

raceVars == <<pc, hist, enq, processor_thread, processors, processor_stop>>

clockVars == <<now, last_vlm_command_time, last_ping_time>>

relayVars == <<frame_queue, capture, frame_no, taken>>

taskVars == <<tasks, keep_alive_active, shutdown_log>>

appVars == <<variant, gesture_model, active_modality, drone_in_air, is_flying,
             is_connected, stop_event>>

obsVars == <<last, prev, calls, q_before>>

\* What the actions of the Sink, the mode machine and the gesture path leave alone.
restVars == <<clockVars, relayVars, taskVars, scenario, vlm_call>>

vars == <<variant, gesture_model, active_modality, drone_in_air, is_flying,
          is_connected, stop_event, queueVars, gestureVars, raceVars,
          last, prev, calls, q_before, restVars>>

Variants == {"cli", "gui", "mod"}

Modalities == {"idle", "gesture", "audio", "vlm"}

\* The command vocabulary (API names of drone_gui.py / command_handler.py; the
\* console variant spells them "move forward", "turn left", "flip forward", ...).
Commands ==
  {"takeoff", "land", "hover",
   "move_forward", "move_back", "move_left", "move_right", "move_up", "move_down",
   "rotate_counter_clockwise", "rotate_clockwise",
   "flip_f", "flip_b", "flip_l", "flip_r"}

Moves == {"move_forward", "move_back", "move_left", "move_right", "move_up", "move_down"}

Rotations == {"rotate_counter_clockwise", "rotate_clockwise"}

Flips == {"flip_f", "flip_b", "flip_l", "flip_r"}

(***************************************************************************)
(* The vehicle transport (djitellopy.Tello), an external collaborator.     *)
(* A call is recorded with the component that issued it and whether it     *)
(* succeeded; a failing call raises in the caller.                         *)
(***************************************************************************)
\* The outcomes of a call that is reached only when `reached` holds.
Outcomes(reached) == IF reached THEN BOOLEAN ELSE {TRUE}

Call(prim, arg, via, ok) == [prim |-> prim, arg |-> arg, via |-> via, ok |-> ok]

Zero == "0,0,0,0"

Hover(via, ok) == Call("send_rc_control", Zero, via, ok)

\* The transport call a command is dispatched to.
Primitive(cmd, via, ok) ==
  CASE cmd = "takeoff" -> Call("takeoff", "", via, ok)
    [] cmd = "land"    -> Call("land", "", via, ok)
    [] cmd = "hover"   -> Hover(via, ok)
    [] cmd \in Moves   -> Call(cmd, "30", via, ok)
    [] cmd \in Rotations -> Call(cmd, "45", via, ok)
    [] cmd = "flip_f"  -> Call("flip", "f", via, ok)
    [] cmd = "flip_b"  -> Call("flip", "b", via, ok)
    [] cmd = "flip_l"  -> Call("flip", "l", via, ok)
    [] cmd = "flip_r"  -> Call("flip", "r", via, ok)

\* Tello.takeoff() / Tello.land() set the vehicle's is_flying once the command succeeded.
RECURSIVE VehicleAfter(_, _)
VehicleAfter(fly, cs) ==
  IF cs = <<>> THEN fly
  ELSE LET c == Head(cs)
           f == IF c.ok /\ c.prim = "takeoff" THEN TRUE
                ELSE IF c.ok /\ c.prim = "land" THEN FALSE
                ELSE fly
       IN VehicleAfter(f, Tail(cs))

(***************************************************************************)
(* The Vehicle Command Sink: execute_command.                              *)
(***************************************************************************)
Outcome(air, cs, result) == [air |-> air, calls |-> cs, result |-> result]

Rejected(air) == Outcome(air, <<>>, "Rejected")

\* A Sink whose takeoff branch tests nothing.
TakeoffGuardOpen(air) == TRUE

\* A Sink whose land branch is never entered.
LandGuardShut(air) == FALSE

\* The guards of the takeoff and land branches.
TakeoffGuard(air) == ~air

LandGuard(air) == air

\* A Sink that forgets to clear the flag after landing.
FlagAfterStale(cmd, air) == IF cmd = "takeoff" THEN TRUE ELSE air

\* The flag a successful command leaves.
FlagAfter(cmd, air) ==
  IF cmd = "takeoff" THEN TRUE ELSE IF cmd = "land" THEN FALSE ELSE air

\* An except branch that stabilises whatever the flag says.
StabiliseAlways(air, ok2) == <<Hover("execute", ok2)>>

\* The except branch: one stabilising hover if the flag says airborne.
Stabilise(air, ok2) == IF air THEN <<Hover("execute", ok2)>> ELSE <<>>

\* A branch that reached its transport call: the call succeeds and the flag is
\* updated, or it raises, the flag keeps its value and the handler stabilises.
Dispatch(air, cmd, ok1, ok2) ==
  IF ok1
  THEN Outcome(FlagAfter(cmd, air), <<Primitive(cmd, "execute", TRUE)>>, "Ok")
  ELSE Outcome(air, <<Primitive(cmd, "execute", FALSE)>> \o Stabilise(air, ok2), "Fails")

\* drone_control.py: no idle check; hover sits in the airborne branch.
execute_command_cli(air, cmd, ok1, ok2) ==
  IF cmd = "takeoff" THEN
    IF TakeoffGuard(air) THEN Dispatch(air, cmd, ok1, ok2) ELSE Rejected(air)
  ELSE IF cmd = "land" THEN
    IF LandGuard(air) THEN Dispatch(air, cmd, ok1, ok2) ELSE Rejected(air)
  ELSE IF air THEN Dispatch(air, cmd, ok1, ok2)
  ELSE Rejected(air)

\* drone_gui.py: commands are ignored in idle mode; otherwise as the console variant.
execute_command_gui(mode, air, cmd, ok1, ok2) ==
  IF mode = "idle" THEN Rejected(air)
  ELSE execute_command_cli(air, cmd, ok1, ok2)

\* gui/command_handler.py: idle check; the hover branch precedes the airborne test.
execute_command_mod(mode, air, cmd, ok1, ok2) ==
  IF mode = "idle" THEN Rejected(air)
  ELSE IF cmd = "takeoff" THEN
    IF TakeoffGuard(air) THEN Dispatch(air, cmd, ok1, ok2) ELSE Rejected(air)
  ELSE IF cmd = "land" THEN
    IF LandGuard(air) THEN Dispatch(air, cmd, ok1, ok2) ELSE Rejected(air)
  ELSE IF cmd = "hover" THEN Dispatch(air, cmd, ok1, ok2)
  ELSE IF air THEN Dispatch(air, cmd, ok1, ok2)
  ELSE Rejected(air)

execute_command(v, mode, air, cmd, ok1, ok2) ==
  CASE v = "cli" -> execute_command_cli(air, cmd, ok1, ok2)
    [] v = "gui" -> execute_command_gui(mode, air, cmd, ok1, ok2)
    [] v = "mod" -> execute_command_mod(mode, air, cmd, ok1, ok2)

(***************************************************************************)
(* Observations.                                                           *)
(***************************************************************************)
Obs(op, arg, result) ==
  [op |-> op, arg |-> arg, mode |-> active_modality, air |-> drone_in_air,
   fly |-> is_flying, result |-> result, time |-> now,
   stamp |-> last_vlm_command_time, recent |-> just_executed]

NoObs == [op |-> "init", arg |-> "", mode |-> "idle", air |-> FALSE,
          fly |-> FALSE, result |-> "", time |-> 0, stamp |-> 0, recent |-> FALSE]

\* How many of the calls `cs` are calls of `prim`.
RECURSIVE Count(_, _)
Count(prim, cs) ==
  IF cs = <<>> THEN 0
  ELSE (IF Head(cs).prim = prim THEN 1 ELSE 0) + Count(prim, Tail(cs))

\* The threads that call the Sink: the command processor and the GUI / capture thread.
Threads == {"processor", "gui"}

NoCall == [at |-> "idle", cmd |-> ""]

\* The producer threads of the Command Queue whose enqueue is followed step by step:
\* the voice listener, and the text reader (console) or the thread that calls
\* CommandHandler.enqueue_command (modular GUI).
Callers == {"voice", "text"}

NoEnqueue == [at |-> "idle", item |-> ""]

\* No round of the processor yet / a round that did not reach the model.  `frames`:
\* what the round found on the queue it takes frames from; `pending`: the capture loop
\* was outside its put and had captured a frame that was never taken.
NoVlmCall ==
  [frames |-> 0, pending |-> FALSE, called |-> FALSE, failed |-> FALSE, response |-> ""]

NoRun == [label |-> "", n |-> 0, fresh |-> FALSE, broke |-> 0]

\* The background tasks: the voice listener, the console text reader, the command
\* processor, keep_connection_alive and keep_drone_alive.
Tasks == {"voice", "text", "processor", "keepalive", "watchdog"}

\* time.time() when the application starts: far more than any cooldown after 0.
START_TIME == 10

\* What is kept of the operation before the last one: a takeoff or land call of the
\* Sink with the flag it saw, its result and its calls of that primitive.
NoBrief == [arg |-> "", air |-> FALSE, mode |-> "idle", result |-> "", n |-> 0]

Brief(o, cs) ==
  IF o.op = "execute" /\ o.arg \in {"takeoff", "land"}
  THEN [arg |-> o.arg, air |-> o.air, mode |-> o.mode, result |-> o.result,
        n |-> Count(o.arg, cs)]
  ELSE NoBrief

(***************************************************************************)
(* Initial state.                                                          *)
(***************************************************************************)
\* drone_control.py:60 starts in gesture mode (audio if the classifier failed to
\* load); both GUI variants start idle.
InitialModality(v, gm) ==
  IF v = "cli" THEN (IF gm THEN "gesture" ELSE "audio") ELSE "idle"

Init ==
  /\ variant \in Variants
  /\ gesture_model \in BOOLEAN
  /\ active_modality = InitialModality(variant, gesture_model)
  /\ drone_in_air = FALSE
  /\ is_flying = FALSE
  /\ is_connected = TRUE
  /\ stop_event = FALSE
  /\ command_queue = <<>>
  /\ put_waiting = ""
  /\ is_listening = FALSE
  /\ temp_gesture = ""
  /\ gesture_count = 0
  /\ cooldown_over = TRUE
  /\ just_executed = FALSE
  /\ reset_pending = 0
  /\ pc = [t \in Threads |-> NoCall]
  /\ enq = [t \in Callers |-> NoEnqueue]
  /\ processor_thread = "none"
  /\ processors = 0
  /\ processor_stop = FALSE
  /\ last = NoObs
  /\ prev = NoBrief
  /\ calls = <<>>
  /\ q_before = <<>>
  /\ run = NoRun
  /\ hist = <<>>
  /\ now = START_TIME
  /\ last_vlm_command_time = 0
  /\ last_ping_time = START_TIME
  /\ frame_queue = <<>>
  /\ capture = "idle"
  /\ frame_no = 0
  /\ taken = 0
  /\ tasks = [t \in Tasks |-> "ready"]
  /\ keep_alive_active = TRUE
  /\ shutdown_log = <<>>
  /\ scenario = <<>>
  /\ vlm_call = NoVlmCall

Observe(op, arg, result, cs) ==
  /\ last' = Obs(op, arg, result)
  /\ prev' = Brief(last, calls)
  /\ calls' = cs
  /\ q_before' = command_queue
  /\ is_flying' = VehicleAfter(is_flying, cs)

\* The GUI / capture thread is not inside a blocking call.
GuiThreadFree == put_waiting = "" /\ pc["gui"].at = "idle"

(***************************************************************************)
(* A call of the Sink: a control button (drone_gui.py:286-292,              *)
(* gui/drone_app.py:554-559) or any other caller of execute_command.       *)
(***************************************************************************)
Execute(cmds) ==
  /\ ~stop_event
  /\ GuiThreadFree
  /\ \E cmd \in cmds, ok1 \in BOOLEAN :
     \E ok2 \in Outcomes(~ok1 /\ drone_in_air) :
       LET o == execute_command(variant, active_modality, drone_in_air, cmd, ok1, ok2) IN
         /\ drone_in_air' = o.air
         /\ Observe("execute", cmd, o.result, o.calls)
  /\ UNCHANGED <<variant, gesture_model, active_modality, is_connected, stop_event>>
  /\ UNCHANGED <<queueVars, gestureVars, raceVars>>
  /\ UNCHANGED restVars

ExecuteCommand == Execute(Commands)

\* The Take Off and Land controls alone.
FlightCommand == Execute({"takeoff", "land"})

\* The commands bound to keys (drone_gui.py:451-477, gui/drone_app.py:347-360).
KeyCommands == {"takeoff", "land", "hover"} \cup Moves \cup Rotations

\* A key handler that forwards in every mode.
ForwardsAlways(mode) == TRUE

\* if self.active_modality not in ["vlm", "idle"]
Forwards(mode) == mode \notin {"vlm", "idle"}

\* handle_key_press of both GUIs: the command goes to execute_command unless the mode
\* is vlm or idle.
HandleKeyPress ==
  /\ ~stop_event
  /\ GuiThreadFree
  /\ variant \in {"gui", "mod"}
  /\ \E cmd \in KeyCommands :
     \E ok1 \in Outcomes(Forwards(active_modality)) :
     \E ok2 \in Outcomes(Forwards(active_modality) /\ ~ok1 /\ drone_in_air) :
       LET o == IF Forwards(active_modality)
                THEN execute_command(variant, active_modality, drone_in_air, cmd, ok1, ok2)
                ELSE Outcome(drone_in_air, <<>>, "Ignored")
       IN /\ drone_in_air' = o.air
          /\ Observe("key", cmd, o.result, o.calls)
  /\ UNCHANGED <<variant, gesture_model, active_modality, is_connected, stop_event>>
  /\ UNCHANGED <<queueVars, gestureVars, raceVars>>
  /\ UNCHANGED restVars

(***************************************************************************)
(* Mode State Machine.                                                     *)
(***************************************************************************)
\* The modes the operator can select: keys a/g/v of the console variant
\* (drone_control.py:545-562), the four radio buttons / mode keys of the GUIs.
Selectable(v) == IF v = "cli" THEN {"audio", "gesture", "vlm"} ELSE Modalities

\* The guard of a mode change: a different mode, and gesture only with a classifier.
ModeChangeAllowed(cur, target, gm) ==
  /\ target # cur
  /\ (target = "gesture" => gm)

\* change_modality / set_modality: the mode is set, then one zero-velocity command is
\* sent straight to the transport.  Its failure is caught by both GUIs; in the console
\* variant it leaves run_drone_interface and the main block sets the stop event.
ChangeModalityTo(targets) ==
  /\ ~stop_event
  /\ GuiThreadFree
  /\ \E target \in targets \cap Selectable(variant), ok \in BOOLEAN :
       /\ ModeChangeAllowed(active_modality, target, gesture_model)
       /\ active_modality' = target
       /\ stop_event' = (variant = "cli" /\ ~ok)
       /\ Observe("change_modality", target, IF ok THEN "Ok" ELSE "Fails",
                  <<Hover("set_modality", ok)>>)
  /\ UNCHANGED <<variant, gesture_model, drone_in_air, is_connected>>
  /\ UNCHANGED <<queueVars, gestureVars, raceVars>>
  /\ UNCHANGED restVars

ChangeModality == ChangeModalityTo(Modalities)

NextKeys ==
  \/ HandleKeyPress
  \/ ExecuteCommand
  \/ ChangeModality

SpecKeys == Init /\ [][NextKeys]_vars

\* C37: in idle mode execute makes no transport call and leaves the flag as it was,
\* for every command, and a key pressed in idle or vlm mode does not reach the Sink.
C37_IdleExecutesNothing ==
  /\ (last.op \in {"execute", "key"} /\ last.mode = "idle")
       => (calls = <<>> /\ drone_in_air = last.air)
  /\ (last.op = "execute" /\ last.mode = "idle") => last.result = "Rejected"
  /\ (last.op = "key" /\ last.mode \in {"idle", "vlm"})
       => (last.result = "Ignored" /\ calls = <<>> /\ drone_in_air = last.air)

\* The land key was pressed in vlm mode with the vehicle in the air: nothing was sent.
C37_Witness ==
  /\ last.op = "key" /\ last.arg = "land" /\ last.mode = "vlm" /\ last.air
  /\ last.result = "Ignored" /\ calls = <<>> /\ drone_in_air

\* Land was executed in idle mode with the vehicle in the air: nothing was sent.
C37_IdleLand ==
  /\ last.op = "execute" /\ last.arg = "land" /\ last.mode = "idle" /\ last.air
  /\ last.result = "Rejected" /\ calls = <<>> /\ drone_in_air

\* The operator selects gesture mode.
SelectGesture == ChangeModalityTo({"gesture"})

\* gui/drone_app.py:636-647: the gesture check box sets the mode on the command
\* handler directly, without asking whether the classifier is available.
ToggleGestureRecognition ==
  /\ ~stop_event
  /\ variant = "mod"
  /\ \E target \in {"gesture", "idle"}, ok \in BOOLEAN :
       /\ active_modality' = target
       /\ Observe("toggle_gesture", target, IF ok THEN "Ok" ELSE "Fails",
                  <<Hover("set_modality", ok)>>)
  /\ UNCHANGED <<variant, gesture_model, drone_in_air, is_connected, stop_event>>
  /\ UNCHANGED <<queueVars, gestureVars, raceVars>>
  /\ UNCHANGED restVars

(***************************************************************************)
(* Keep-alive / battery watchdog: one tick of keep_drone_alive.            *)
(***************************************************************************)
AllOk(cs) == \A i \in DOMAIN cs : cs[i].ok

\* A loop that an exception inside its body ends.
LoopAfterUncaught(raised) == IF raised THEN "exited" ELSE "ready"

\* Where a task's loop is after one round: the except clauses of the loop body catch
\* every Exception, so the loop goes round again whether the body raised or not.
LoopAfter(raised) == "ready"

MIN_BATTERY == 15

CRITICAL_BATTERY == 10

\* Battery readings tried: both thresholds, their neighbours, and the scenario's values.
Batteries == {9, 10, 11, 14, 15, 16, 40}

\* Whether a tick that read `battery` calls land().
WatchdogLands(battery, fly) ==
  IF battery <= CRITICAL_BATTERY THEN fly
  ELSE battery <= MIN_BATTERY /\ fly

\* The calls of one tick: the landing, if any, inside the inner try; then the
\* heartbeat if the vehicle does not report flying.
WatchdogCalls(battery, fly, readOk, landOk, hbOk) ==
  LET landing == IF readOk /\ WatchdogLands(battery, fly)
                 THEN <<Call("land", "", "watchdog", landOk)>> ELSE <<>>
      flyAfter == VehicleAfter(fly, landing)
      heartbeat == IF ~flyAfter THEN <<Call("command", "", "watchdog", hbOk)>> ELSE <<>>
  IN landing \o heartbeat

WatchdogResult(cs) ==
  IF \E i \in DOMAIN cs : cs[i].prim = "land" /\ cs[i].ok THEN "landed"
  ELSE IF \E i \in DOMAIN cs : cs[i].prim = "land" THEN "land_failed"
  ELSE "none"

WatchdogTick ==
  /\ ~stop_event
  /\ keep_alive_active
  /\ tasks["watchdog"] = "ready"
  /\ \E battery \in Batteries, readOk \in Outcomes(is_connected) :
     \E landOk \in Outcomes(is_connected /\ readOk /\ WatchdogLands(battery, is_flying)),
        hbOk \in Outcomes(is_connected) :
       LET cs == IF is_connected
                 THEN WatchdogCalls(battery, is_flying, readOk, landOk, hbOk)
                 ELSE <<>>
       IN /\ Observe("watchdog", IF readOk THEN ToString(battery) ELSE "unread",
                     WatchdogResult(cs), cs)
          /\ tasks' = [tasks EXCEPT !["watchdog"] = LoopAfter(~readOk \/ ~AllOk(cs))]
  /\ UNCHANGED <<variant, gesture_model, active_modality, drone_in_air, is_connected,
                 stop_event>>
  /\ UNCHANGED <<queueVars, gestureVars, raceVars>>
  /\ UNCHANGED <<clockVars, relayVars, keep_alive_active, shutdown_log, scenario, vlm_call>>

\* The link to the vehicle comes and goes.
ConnectionChange ==
  /\ ~stop_event
  /\ is_connected' = ~is_connected
  /\ Observe("connection", "", "", <<>>)
  /\ UNCHANGED <<variant, gesture_model, active_modality, drone_in_air, stop_event>>
  /\ UNCHANGED <<queueVars, gestureVars, raceVars>>
  /\ UNCHANGED restVars

Next ==
  \/ ExecuteCommand
  \/ ChangeModality
  \/ ToggleGestureRecognition
  \/ WatchdogTick
  \/ ConnectionChange

Spec == Init /\ [][Next]_vars

(***************************************************************************)
(* Properties of the Sink.                                                 *)
(***************************************************************************)
SinkCall(cmd) == last.op = "execute" /\ last.arg = cmd

\* The transport call of the last execute raised.
TransportFailed == last.op = "execute" /\ calls # <<>> /\ ~calls[1].ok

\* C25: when the transport call inside execute_command fails, the failure stays inside
\* (the result is Fails and nothing stops), the flag keeps the value it had, and one
\* zero-velocity command follows if and only if the flag says airborne, whose own
\* failure changes nothing.
C25_FailureContained ==
  TransportFailed =>
    /\ last.result = "Fails"
    /\ ~stop_event
    /\ drone_in_air = last.air
    /\ Len(calls) = IF last.air THEN 2 ELSE 1
    /\ last.air => (calls[2].prim = "send_rc_control" /\ calls[2].arg = Zero)

\* A land failed in the air, and so did the stabilising command after it.
C25_Witness ==
  /\ TransportFailed /\ last.arg = "land" /\ last.air /\ drone_in_air
  /\ Len(calls) = 2 /\ ~calls[2].ok /\ last.result = "Fails"

\* C1: a call of execute made while the flag says Grounded, with any command other
\* than takeoff, is rejected and issues no transport call, in every modality.
C1_GroundedRejectsAllButTakeoff ==
  (last.op = "execute" /\ ~last.air /\ last.arg # "takeoff")
    => (last.result = "Rejected" /\ calls = <<>>)

StartsFrom(cmd) == (cmd = "land")

\* `cmd` was called twice in a row, the first time from the state that accepts it.
Twice(cmd) ==
  /\ prev.arg = cmd /\ prev.air = StartsFrom(cmd)
  /\ SinkCall(cmd)

C13_GestureNeedsClassifier == active_modality = "gesture" => gesture_model

\* The last operation changed the mode.
ModeChanged == last.op # "init" /\ last.mode # active_modality

\* C14: every operation that changes the mode, whichever it is (mode control, mode
\* key, a vision query submitted from another mode), sends one zero-velocity command
\* to the vehicle at once.
C14_ModeChangeSendsHover ==
  ModeChanged
    => /\ Len(calls) = 1
       /\ calls[1].prim = "send_rc_control" /\ calls[1].arg = Zero

(***************************************************************************)
(* Properties of the shared-resource policy and of the watchdog.           *)
(***************************************************************************)
\* The vehicle-command primitives: everything but the watchdog's "command" heartbeat
\* and the battery query.
VehicleCommand(c) == c.prim \notin {"command", "get_battery"}

\* C5: every vehicle-command transport call (takeoff, land, move, rotate, flip,
\* set-velocity) made by any component is issued from inside the Sink's execute.
C5_SinkIsSoleCaller ==
  \A i \in DOMAIN calls : VehicleCommand(calls[i]) => calls[i].via = "execute"

\* The readings at or below the landing threshold, as the observation spells them.
LowReadings == {ToString(b) : b \in {x \in Batteries : x <= MIN_BATTERY}}

\* C6: a watchdog tick issues a landing exactly when the flag says Airborne and the
\* battery reading is at or below 15 (40 and 16: no action; 14: one landing), and
\* after that landing the flag says Grounded, so that the next tick (9) does nothing.
C6_WatchdogLandsAndGrounds ==
  (last.op = "watchdog" /\ last.arg # "unread")
    => /\ (Count("land", calls) = 1) <=> (last.air /\ last.arg \in LowReadings)
       /\ Count("land", calls) <= 1
       /\ last.result = "landed" => ~drone_in_air

\* C36: the FlightState flag agrees with the vehicle: it says Airborne exactly when the
\* last takeoff or land call that succeeded, whichever component made it, was a takeoff.
C36_FlagAgreesWithVehicle == drone_in_air = is_flying

\* The last operation was a watchdog tick that sent the heartbeat.
HeartbeatSent == last.op = "watchdog" /\ Count("command", calls) > 0

\* C31: a watchdog tick sends the no-op heartbeat only if it triggered no landing and
\* the flag says Grounded: a tick never both lands and sends the heartbeat, and no
\* heartbeat is sent while the flag says Airborne.
C31_HeartbeatOnlyGroundedNoLanding ==
  HeartbeatSent => (Count("land", calls) = 0 /\ ~last.air)

(***************************************************************************)
(* The Command Queue, its producers and its consumer.                      *)
(***************************************************************************)
COMMAND_QUEUE_SIZE == 5

DRONE_APP_QUEUE_SIZE == 10

\* queue.Queue(maxsize=...) as each application creates it; the modular DroneApp
\* hands its own queue to CommandHandler and SpeechHandler.
maxsize(v) == IF v = "mod" THEN DRONE_APP_QUEUE_SIZE ELSE COMMAND_QUEUE_SIZE

full(q, v) == Len(q) >= maxsize(v)

\* What the microphone hears, and what the operator types as a vision query.
Utterances == {"take off", "land"}

Queries == {"land"}

\* What the vision model answers.
Responses == {"land", "a desk"}

\* What a failing model call raises: a timeout, an error of the model server.
Exceptions == {"timed out", "model runner has unexpectedly stopped"}

\* process_vlm_input: the model's answer, or the text of the exception it caught.
process_vlm_input(failed, text) == IF failed THEN "Error: " \o text ELSE text

\* The three utterances of the voice scenario.
Script == <<"take off", "land", "move forward">>

ScriptWords == {Script[i] : i \in DOMAIN Script}

\* Transcripts, typed lines and model answers.
Texts ==
  {"", "   ", "land", "LAND", "\tLand \n", "take off", " TAKE OFF", "turn left",
   "  Turn LEFT  ", "stop moving", "Stop Moving ", "flip left", "flip left now",
   "please stop", "go down", "a desk"}

(***************************************************************************)
(* The Command Vocabulary & Normalizer: recognize_command.  A text is a    *)
(* string of characters; lower, strip and `in` work on its characters.     *)
(***************************************************************************)
\* A lower() that leaves every character as it is.
lower_kept(s) == s

\* str.lower()
RECURSIVE lower(_)
lower(s) ==
  IF s = "" THEN ""
  ELSE LET UPPER == "ABCDEFGHIJKLMNOPQRSTUVWXYZ"
           LOWER == "abcdefghijklmnopqrstuvwxyz"
           c == SubSeq(s, 1, 1)
           up == {i \in 1..Len(UPPER) : SubSeq(UPPER, i, i) = c}
       IN (IF up = {} THEN c ELSE LET i == CHOOSE i \in up : TRUE IN SubSeq(LOWER, i, i))
          \o lower(Tail(s))

\* str.strip(): leading and trailing whitespace removed.
RECURSIVE strip(_)
strip(s) ==
  LET Whitespace == {" ", "\t", "\n"} IN
    IF s = "" THEN s
    ELSE IF SubSeq(s, 1, 1) \in Whitespace THEN strip(Tail(s))
    ELSE IF SubSeq(s, Len(s), Len(s)) \in Whitespace THEN strip(SubSeq(s, 1, Len(s) - 1))
    ELSE s

\* phrase in text
contains(phrase, text) ==
  \E i \in 1..(Len(text) - Len(phrase) + 1) : SubSeq(text, i, i + Len(phrase) - 1) = phrase

\* COMMANDS of the console variant, in declaration order, each action with its
\* phrases; the actions under their API names (see Commands).
COMMANDS ==
  << <<"takeoff", <<"take off", "start", "begin flight", "arise", "launch">> >>,
     <<"land", <<"land", "stop", "descend fully", "ground">> >>,
     <<"move_forward", <<"move forward", "go forward", "fly forward">> >>,
     <<"move_back", <<"move backward", "go back", "fly backward">> >>,
     <<"rotate_counter_clockwise", <<"turn left", "rotate left">> >>,
     <<"rotate_clockwise", <<"turn right", "rotate right">> >>,
     <<"move_left", <<"move left", "go left", "fly left", "strafe left">> >>,
     <<"move_right", <<"move right", "go right", "fly right", "strafe right">> >>,
     <<"move_up", <<"move up", "ascend", "fly up">> >>,
     <<"move_down", <<"move down", "descend", "fly down">> >>,
     <<"hover", <<"hover", "stay", "hold position", "stop moving">> >>,
     <<"flip_f", <<"flip forward", "do a front flip">> >>,
     <<"flip_b", <<"flip backward", "do a back flip">> >>,
     <<"flip_l", <<"flip left", "do a left flip">> >>,
     <<"flip_r", <<"flip right", "do a right flip">> >> >>

\* command_mapping of the two GUI variants (the same dict in both), in insertion
\* order, each phrase with its API command.
command_mapping ==
  << <<"take off", "takeoff">>, <<"takeoff", "takeoff">>, <<"land", "land">>,
     <<"move forward", "move_forward">>, <<"go forward", "move_forward">>,
     <<"fly forward", "move_forward">>, <<"forward", "move_forward">>,
     <<"move backward", "move_back">>, <<"go back", "move_back">>,
     <<"fly backward", "move_back">>, <<"backward", "move_back">>,
     <<"back", "move_back">>,
     <<"turn left", "rotate_counter_clockwise">>,
     <<"rotate left", "rotate_counter_clockwise">>,
     <<"turn right", "rotate_clockwise">>, <<"rotate right", "rotate_clockwise">>,
     <<"move left", "move_left">>, <<"go left", "move_left">>,
     <<"fly left", "move_left">>, <<"left", "move_left">>,
     <<"strafe left", "move_left">>,
     <<"move right", "move_right">>, <<"go right", "move_right">>,
     <<"fly right", "move_right">>, <<"right", "move_right">>,
     <<"strafe right", "move_right">>,
     <<"move up", "move_up">>, <<"ascend", "move_up">>, <<"fly up", "move_up">>,
     <<"up", "move_up">>,
     <<"move down", "move_down">>, <<"descend", "move_down">>,
     <<"fly down", "move_down">>, <<"down", "move_down">>,
     <<"hover", "hover">>, <<"stay", "hover">>, <<"hold position", "hover">>,
     <<"stop moving", "hover">>,
     <<"flip forward", "flip_f">>, <<"flip front", "flip_f">>,
     <<"flip backward", "flip_b">>, <<"flip back", "flip_b">>,
     <<"flip left", "flip_l">>, <<"flip right", "flip_r">> >>

\* command_keywords of the modular speech handler, in declaration order, spelled
\* as the handler spells them.
command_keywords ==
  << <<"takeoff", <<"take off", "takeoff", "start", "begin flight", "take of",
                    "takeoff", "start flying">> >>,
     <<"land", <<"land", "stop", "go down", "descend fully", "ground", "go landing",
                 "land now">> >>,
     <<"move forward", <<"move forward", "go forward", "fly forward", "forward",
                         "ahead", "straight", "front">> >>,
     <<"move backward", <<"move backward", "go back", "fly backward", "backward",
                          "reverse", "back", "behind">> >>,
     <<"move left", <<"move left", "go left", "fly left", "left", "leftward",
                      "to the left">> >>,
     <<"move right", <<"move right", "go right", "fly right", "right", "rightward",
                       "to the right">> >>,
     <<"move up", <<"move up", "go up", "fly up", "up", "upward", "higher", "ascend",
                    "rise">> >>,
     <<"move down", <<"move down", "go down", "fly down", "down", "downward", "lower",
                      "descend", "sink">> >>,
     <<"turn left", <<"turn left", "rotate left", "spin left", "twist left">> >>,
     <<"turn right", <<"turn right", "rotate right", "spin right", "twist right">> >>,
     <<"hover", <<"hover", "stay", "pause", "hold position", "stop moving", "freeze",
                  "hold", "wait">> >>,
     <<"flip forward", <<"flip forward", "do a front flip", "front flip",
                         "forward flip">> >>,
     <<"flip backward", <<"flip backward", "do a back flip", "back flip",
                          "backward flip">> >>,
     <<"flip left", <<"flip left", "do a left flip", "left flip">> >>,
     <<"flip right", <<"flip right", "do a right flip", "right flip">> >> >>

\* A matcher whose substring loop runs before its exact loop.
LookupPartialFirst(table, listed, text, none) ==
  LET Hit(i, P(_)) == IF listed THEN \E j \in DOMAIN table[i][2] : P(table[i][2][j])
                      ELSE P(table[i][1])
      partial == {i \in DOMAIN table : Hit(i, LAMBDA p : contains(p, text))}
      i == CHOOSE i \in partial : \A j \in partial : i <= j
  IN IF partial = {} THEN none ELSE IF listed THEN table[i][1] ELSE table[i][2]

\* The two loops of the three matchers over a table of phrase lists (COMMANDS,
\* command_keywords: `listed`) or a dict of phrases: the first entry with a phrase
\* equal to the text, else the first entry with a phrase inside the text.
Lookup(table, listed, text, none) ==
  LET Hit(i, P(_)) == IF listed THEN \E j \in DOMAIN table[i][2] : P(table[i][2][j])
                      ELSE P(table[i][1])
      exact == {i \in DOMAIN table : Hit(i, LAMBDA p : p = text)}
      partial == {i \in DOMAIN table : Hit(i, LAMBDA p : contains(p, text))}
      hits == IF exact # {} THEN exact ELSE partial
      i == CHOOSE i \in hits : \A j \in hits : i <= j
  IN IF hits = {} THEN none ELSE IF listed THEN table[i][1] ELSE table[i][2]

\* The command whose phrase a lower-cased, trimmed text matches in a variant.
Phrase(v, text) ==
  IF v = "cli" THEN Lookup(COMMANDS, TRUE, text, "Unknown Command")
  ELSE Lookup(command_mapping, FALSE, text, "Unknown Command")

\* An override that forgets the flag.
OverrideNone(action, air) == action

\* The state-dependent overrides of a matched command.
Override(action, air) ==
  IF action = "land" /\ ~air THEN "Already Landed"
  ELSE IF action = "takeoff" /\ air THEN "Already Flying"
  ELSE action

\* Every text the model hands to a matcher: what is heard, typed and answered, and
\* the commands the modular speech handler puts on the queue.
Vocabulary ==
  Texts \cup Utterances \cup ScriptWords \cup Queries \cup Responses
    \cup {process_vlm_input(TRUE, e) : e \in Exceptions}
    \cup {command_keywords[i][1] : i \in DOMAIN command_keywords}

\* The head of recognize_command, for every variant and every text of the model,
\* worked out once: lower-case and trim, give up on an empty text, else the phrase
\* found.
Matches ==
  [v \in Variants |->
     [text \in Vocabulary |->
        LET t == strip(lower(text)) IN
          IF t = "" THEN "Unknown Command" ELSE Phrase(v, t)]]

\* recognize_command: the phrase found, filtered by the flag.
recognize_command(v, text, air) == Override(Matches[v][text], air)

Ignored == {"Unknown Command", "Already Landed", "Already Flying"}

\* CommandProcessor.process_text of the modular speech handler: None ("") for an
\* empty text before any trimming, else the keyword found.
Keywords ==
  [text \in Vocabulary |->
     IF text = "" THEN "" ELSE Lookup(command_keywords, TRUE, strip(lower(text)), "")]

process_text(text) == Keywords[text]

(***************************************************************************)
(* The Normalizer on its own: texts of any case and spacing are given to   *)
(* recognize_command and to process_text, on the ground and in the air.    *)
(***************************************************************************)
\* One call of recognize_command: it reads the flag and returns.
RecognizeCommand ==
  /\ \E text \in Texts :
       Observe("recognize_command", text,
               recognize_command(variant, text, drone_in_air), <<>>)
  /\ UNCHANGED <<variant, gesture_model, active_modality, drone_in_air, is_connected,
                 stop_event>>
  /\ UNCHANGED <<queueVars, gestureVars, raceVars>>
  /\ UNCHANGED restVars

\* One call of CommandProcessor.process_text by the modular speech handler.
ProcessText ==
  /\ variant = "mod"
  /\ \E text \in Texts : Observe("process_text", text, process_text(text), <<>>)
  /\ UNCHANGED <<variant, gesture_model, active_modality, drone_in_air, is_connected,
                 stop_event>>
  /\ UNCHANGED <<queueVars, gestureVars, raceVars>>
  /\ UNCHANGED restVars

NextNormalize ==
  \/ RecognizeCommand
  \/ ProcessText
  \/ FlightCommand
  \/ ChangeModality

SpecNormalize == Init /\ [][NextNormalize]_vars

\* The lower-cased, trimmed form of each text, written out by hand.
Canonical(text) ==
  CASE text \in {"", "   "} -> ""
    [] text \in {"land", "LAND", "\tLand \n"} -> "land"
    [] text \in {"take off", " TAKE OFF"} -> "take off"
    [] text \in {"turn left", "  Turn LEFT  "} -> "turn left"
    [] text \in {"stop moving", "Stop Moving "} -> "stop moving"
    [] OTHER -> text

Recognized == last.op = "recognize_command"

\* C21: recognize_command gives a text the result it gives the lower-cased, trimmed
\* text, on the ground and in the air, and a text that is empty after trimming is an
\* unknown command.
C21_CaseAndTrimInvariant ==
  Recognized =>
    /\ last.result = recognize_command(variant, Canonical(last.arg), last.air)
    /\ Canonical(last.arg) = "" => last.result = "Unknown Command"

C21_Witness ==
  /\ Recognized /\ last.arg = "  Turn LEFT  "
  /\ last.result = "rotate_counter_clockwise"

\* C27: recognize_command answers "Already Landed" exactly when the matched command is
\* land and the flag says grounded, "Already Flying" exactly when it is takeoff and
\* the flag says airborne, the matched command otherwise, and leaves the flag alone.
C27_StateOverrides ==
  Recognized =>
    LET matched == Phrase(variant, Canonical(last.arg)) IN
      /\ last.result = "Already Landed" <=> (matched = "land" /\ ~last.air)
      /\ last.result = "Already Flying" <=> (matched = "takeoff" /\ last.air)
      /\ last.result \notin {"Already Landed", "Already Flying"} => last.result = matched
      /\ drone_in_air = last.air

C27_Witness ==
  /\ Recognized /\ last.arg = " TAKE OFF" /\ last.air
  /\ last.result = "Already Flying"

\* The table a matcher reads, whether its entries are phrase lists, and the result it
\* gives for a matched command.
TableOf(o, v) ==
  IF o.op = "process_text" THEN command_keywords
  ELSE IF v = "cli" THEN COMMANDS ELSE command_mapping

Listed(o, v) == o.op = "process_text" \/ v = "cli"

Resolves(o, cmd) ==
  o.result = IF o.op = "process_text" THEN cmd ELSE Override(cmd, o.air)

\* Entry i of the table has a phrase equal to / inside the text.
Variant(o, v, i, text) ==
  IF Listed(o, v) THEN \E j \in DOMAIN TableOf(o, v)[i][2] : TableOf(o, v)[i][2][j] = text
  ELSE TableOf(o, v)[i][1] = text

Inside(o, v, i, text) ==
  IF Listed(o, v)
  THEN \E j \in DOMAIN TableOf(o, v)[i][2] : contains(TableOf(o, v)[i][2][j], text)
  ELSE contains(TableOf(o, v)[i][1], text)

CommandOf(o, v, i) ==
  IF Listed(o, v) THEN TableOf(o, v)[i][1] ELSE TableOf(o, v)[i][2]

Matched == last.op \in {"recognize_command", "process_text"} /\ Canonical(last.arg) # ""

\* Without an exact match the first command in declaration order with a phrase
\* inside the text wins, and a text with no phrase inside is unknown.
SubstringRule(o, v, text) ==
  LET D == DOMAIN TableOf(o, v) IN
    (\A i \in D : ~Variant(o, v, i, text)) =>
       /\ \A i \in D : (Inside(o, v, i, text) /\ \A j \in D : j < i => ~Inside(o, v, j, text))
                          => Resolves(o, CommandOf(o, v, i))
       /\ (\A i \in D : ~Inside(o, v, i, text)) =>
             o.result = IF o.op = "process_text" THEN "" ELSE "Unknown Command"

\* C28 as claimed: a text equal to a phrase of command C resolves to C, whatever
\* earlier command has a phrase inside it; without an exact match the first command
\* in declaration order with a phrase inside the text wins.
C28_ExactBeatsSubstring ==
  Matched =>
    LET text == Canonical(last.arg) IN
      /\ \A i \in DOMAIN TableOf(last, variant) :
            Variant(last, variant, i, text) => Resolves(last, CommandOf(last, variant, i))
      /\ SubstringRule(last, variant, text)

\* C28 as amended: a text equal to a phrase resolves to the first command in
\* declaration order that lists the phrase.
C28_FirstExactThenSubstring ==
  Matched =>
    LET text == Canonical(last.arg)
        D == DOMAIN TableOf(last, variant)
    IN /\ \A i \in D :
            (Variant(last, variant, i, text) /\ \A j \in D : j < i => ~Variant(last, variant, j, text))
               => Resolves(last, CommandOf(last, variant, i))
       /\ SubstringRule(last, variant, text)
       /\ (last.op = "recognize_command" /\ text = "stop moving") => last.result = "hover"
       /\ (last.op = "recognize_command" /\ text = "flip left") => last.result = "flip_l"

C28_Witness ==
  /\ last.op = "recognize_command" /\ variant = "cli" /\ last.arg = "Stop Moving "
  /\ last.result = "hover"

\* The drop-oldest enqueue: put if there is room, else get_nowait then put_nowait.
enqueue_command(q, v, item) ==
  IF ~full(q, v) THEN Append(q, item) ELSE Append(Tail(q), item)

\* SpeechHandler.add_to_queue: put if there is room, else only a message.
add_to_queue(q, v, item) == IF ~full(q, v) THEN Append(q, item) ELSE q

\* The producers of the Command Queue, as the observations name them.
Producers == {"voice", "text", "vlm_query", "speech"}

Enqueued(producer, item) == Observe(producer, item, "", <<>>)

\* listen_for_voice_commands (console: in audio and vlm mode; monolithic GUI: in
\* audio mode): one recognised utterance is put with the drop-oldest enqueue.
Hears(texts) ==
  /\ ~stop_event
  /\ \/ variant = "cli" /\ active_modality \in {"audio", "vlm"}
     \/ variant = "gui" /\ active_modality = "audio"
  /\ \E text \in texts :
       /\ command_queue' = enqueue_command(command_queue, variant, text)
       /\ Enqueued("voice", text)
  /\ UNCHANGED <<variant, gesture_model, active_modality, drone_in_air, is_connected,
                 stop_event, put_waiting, is_listening, gestureVars, raceVars>>
  /\ UNCHANGED restVars

VoiceListener == Hears(Utterances)

\* The operator speaks the words of the voice scenario.
VoiceScript == Hears(ScriptWords)

\* read_text_input of the console variant: a typed line in vlm mode.
TextInput ==
  /\ ~stop_event
  /\ variant = "cli" /\ active_modality = "vlm"
  /\ \E query \in Queries :
       /\ command_queue' = enqueue_command(command_queue, variant, query)
       /\ Enqueued("text", query)
  /\ UNCHANGED <<variant, gesture_model, active_modality, drone_in_air, is_connected,
                 stop_event, put_waiting, is_listening, gestureVars, raceVars>>
  /\ UNCHANGED restVars

\* drone_gui.py send_vlm_command: the mode becomes vlm (no zero-velocity command),
\* then a blocking put: on a full queue the GUI thread waits for room.
SendVlmCommandGui ==
  /\ ~stop_event
  /\ variant = "gui" /\ GuiThreadFree
  /\ \E query \in Queries :
       /\ active_modality' = "vlm"
       /\ IF full(command_queue, variant)
          THEN command_queue' = command_queue /\ put_waiting' = query
          ELSE command_queue' = Append(command_queue, query) /\ put_waiting' = ""
       /\ Enqueued("vlm_query", query)
  /\ UNCHANGED <<variant, gesture_model, drone_in_air, is_connected, stop_event,
                 is_listening, gestureVars, raceVars>>
  /\ UNCHANGED restVars

\* The blocked put returns once the consumer has made room.
PutCompletes ==
  /\ put_waiting # "" /\ ~full(command_queue, variant)
  /\ command_queue' = Append(command_queue, put_waiting)
  /\ put_waiting' = ""
  /\ Observe("put_completes", put_waiting, "", <<>>)
  /\ UNCHANGED <<variant, gesture_model, active_modality, drone_in_air, is_connected,
                 stop_event, is_listening, gestureVars, raceVars>>
  /\ UNCHANGED restVars

\* gui/drone_app.py send_vlm_command: set_modality("vlm") unless already there, then
\* CommandHandler.enqueue_command.  Leaving audio mode, change_modality raises on
\* speech_handler.stop_listener (no such method) after the mode was set, and the
\* query is never enqueued.
SendVlmCommandMod ==
  /\ ~stop_event
  /\ variant = "mod"
  /\ \E query \in Queries, ok \in Outcomes(active_modality # "vlm") :
       LET switch == active_modality # "vlm"
           raised == active_modality = "audio"
       IN /\ active_modality' = "vlm"
          /\ command_queue' = IF raised THEN command_queue
                              ELSE enqueue_command(command_queue, variant, query)
          /\ Observe(IF raised THEN "vlm_query_raised" ELSE "vlm_query", query, "",
                     IF switch THEN <<Hover("set_modality", ok)>> ELSE <<>>)
  /\ UNCHANGED <<variant, gesture_model, drone_in_air, is_connected, stop_event,
                 put_waiting, is_listening, gestureVars, raceVars>>
  /\ UNCHANGED restVars

\* gui/drone_app.py toggle_voice_recognition: start_listening / stop_listening.
ToggleVoiceRecognition ==
  /\ ~stop_event
  /\ variant = "mod"
  /\ is_listening' = ~is_listening
  /\ Observe("toggle_voice", "", "", <<>>)
  /\ UNCHANGED <<variant, gesture_model, active_modality, drone_in_air, is_connected,
                 stop_event, command_queue, put_waiting, gestureVars, raceVars>>
  /\ UNCHANGED restVars

\* SpeechHandler.listen_for_commands -> process_command -> add_to_queue.
SpeechCommand ==
  /\ ~stop_event
  /\ variant = "mod" /\ is_listening
  /\ \E text \in Utterances :
       /\ command_queue' = add_to_queue(command_queue, variant, process_text(text))
       /\ Enqueued("speech", process_text(text))
  /\ UNCHANGED <<variant, gesture_model, active_modality, drone_in_air, is_connected,
                 stop_event, put_waiting, is_listening, gestureVars, raceVars>>
  /\ UNCHANGED restVars
\* The command processor runs where its thread is started: the console main block
\* and the monolithic GUI start it; the modular DroneApp.start_threads, the only
\* caller of CommandHandler.start_processor, is itself never called.
ProcessorStarted(v) == v \in {"cli", "gui"}

\* A processor that executes whatever phrase matched, whatever the flag says.
process_audio_command_matched(v, mode, air, text, ok1, ok2) ==
  IF Matches[v][text] = "Unknown Command" THEN Outcome(air, <<>>, "Unknown Command")
  ELSE execute_command(v, mode, air, Matches[v][text], ok1, ok2)

\* process_audio_command: recognise, then execute unless the recogniser said to ignore.
process_audio_command(v, mode, air, text, ok1, ok2) ==
  LET drone_command == recognize_command(v, text, air) IN
    IF drone_command \in Ignored THEN Outcome(air, <<>>, drone_command)
    ELSE execute_command(v, mode, air, drone_command, ok1, ok2)

\* The vlm branch: skipped inside the cooldown or without a frame; the console
\* variant interprets the answer as a command, the monolithic GUI only shows it.
\* `cooled`: the cooldown has passed; `frame`: the Frame Relay held a frame.
process_vlm_command(v, mode, air, cooled, frame, response, ok1, ok2) ==
  IF ~cooled THEN Outcome(air, <<>>, "skipped")
  ELSE IF ~frame THEN Outcome(air, <<>>, "no_frame")
  ELSE IF v = "gui" THEN Outcome(air, <<>>, "answered")
  ELSE process_audio_command(v, mode, air, response, ok1, ok2)

\* A loop that treats every dequeued item as a voice command.
command_processor_voice(v, mode, air, item, cooled, frame, response, ok1, ok2) ==
  process_audio_command(v, mode, air, item, ok1, ok2)

\* The body of command_processor after the dequeue: the branch is chosen by the mode
\* as it is now; in idle and gesture mode nothing is done with the item.
command_processor(v, mode, air, item, cooled, frame, response, ok1, ok2) ==
  IF mode = "audio" THEN process_audio_command(v, mode, air, item, ok1, ok2)
  ELSE IF mode = "vlm"
       THEN process_vlm_command(v, mode, air, cooled, frame, response, ok1, ok2)
  ELSE Outcome(air, <<>>, "discarded")

\* The queue the vision branch takes its frame from: the Frame Relay the capture loop
\* fills in both monolithic variants; CommandHandler.frame_queue in the modular one,
\* a queue of its own that nothing puts a frame on.
frame_q(v, relay) == IF v = "mod" THEN <<>> ELSE relay

\* vlm_cooldown of the three command processors.
vlm_cooldown == 3

\* A processor without a cooldown.
CooledAlways(t, stamp) == TRUE

\* current_time - last_vlm_command_time > vlm_cooldown
Cooled(t, stamp) == t - stamp > vlm_cooldown

\* A processor that stamps the time before it looks for a frame.
StampAfterAttempt(cooled, frame, t, stamp) == IF cooled THEN t ELSE stamp

\* last_vlm_command_time after a vlm round: set once a frame was taken.
StampAfter(cooled, frame, t, stamp) == IF frame THEN t ELSE stamp

\* One round of the voice scenario as the processor ran it: the flag before, the
\* result, the transport calls, the flag after.
Round(air, o) == [air |-> air, result |-> o.result, calls |-> o.calls, after |-> o.air]

\* The rounds run in audio mode on the utterances of the script, in its order.
ScenarioAfter(sc, item, mode, air, o) ==
  IF mode # "audio" THEN <<>>
  ELSE IF Len(sc) < Len(Script) /\ item = Script[Len(sc) + 1] THEN Append(sc, Round(air, o))
  ELSE IF item = Script[1] THEN <<Round(air, o)>>
  ELSE <<>>

\* One round of command_processor: take the oldest item and handle it by the mode.
\* The vlm branch reads the clock and takes a frame from the Frame Relay without
\* waiting; the time of the dispatch is stored once a frame was there.  `raised`: the
\* body raised before it had any effect; the except clause of the loop catches it.
\* `answered`: the model call returned; if it raised, process_vlm_input returns the
\* text of the exception as the response.
CommandProcessor ==
  /\ ~stop_event
  /\ ProcessorStarted(variant) \/ (processors > 0 /\ ~processor_stop)
  /\ tasks["processor"] = "ready"
  /\ command_queue # <<>>
  /\ \E raised \in BOOLEAN :
     LET cooled == active_modality = "vlm" /\ Cooled(now, last_vlm_command_time)
         frame == cooled /\ frame_q(variant, frame_queue) # <<>>
         dispatched == frame /\ ~raised
         executes == ~raised /\ (active_modality = "audio" \/ (variant # "gui" /\ frame))
     IN
     \E answered \in Outcomes(dispatched) :
     \E text \in IF ~dispatched THEN {""} ELSE IF answered THEN Responses ELSE Exceptions,
        ok1 \in Outcomes(executes) :
     \E ok2 \in Outcomes(executes /\ ~ok1 /\ drone_in_air) :
       LET item == Head(command_queue)
           response == process_vlm_input(~answered, text)
           o == IF raised THEN Outcome(drone_in_air, <<>>, "error")
                ELSE command_processor(variant, active_modality, drone_in_air, item,
                                       cooled, frame, response, ok1, ok2)
       IN /\ command_queue' = Tail(command_queue)
          /\ drone_in_air' = o.air
          /\ frame_queue' = IF dispatched THEN Tail(frame_queue) ELSE frame_queue
          /\ taken' = IF dispatched THEN Head(frame_queue) ELSE taken
          /\ last_vlm_command_time' =
               IF raised THEN last_vlm_command_time
               ELSE StampAfter(cooled, frame, now, last_vlm_command_time)
          /\ scenario' = IF raised THEN <<>>
                         ELSE ScenarioAfter(scenario, item, active_modality, drone_in_air, o)
          /\ tasks' = [tasks EXCEPT !["processor"] = LoopAfter(raised)]
          /\ vlm_call' = [frames |-> Len(frame_q(variant, frame_queue)),
                          pending |-> capture = "idle" /\ frame_no > taken,
                          called |-> dispatched, failed |-> ~answered,
                          response |-> response]
          /\ Observe("process", item, o.result, o.calls)
  /\ UNCHANGED <<variant, gesture_model, active_modality, is_connected, stop_event,
                 put_waiting, is_listening, gestureVars, raceVars>>
  /\ UNCHANGED <<now, last_ping_time, capture, frame_no, keep_alive_active, shutdown_log>>

NextQueue ==
  \/ VoiceListener
  \/ TextInput
  \/ SendVlmCommandGui
  \/ PutCompletes
  \/ SendVlmCommandMod
  \/ ToggleVoiceRecognition
  \/ SpeechCommand
  \/ CommandProcessor
  \/ ChangeModality

SpecQueue == Init /\ [][NextQueue]_vars

\* The operator selects audio mode.
SelectAudio == ChangeModalityTo({"audio"})

\* The operator says something that is no command.
VoiceOther == Hears({"a desk"})

NextVoice ==
  \/ VoiceScript
  \/ VoiceOther
  \/ CommandProcessor
  \/ SelectAudio

SpecVoice == Init /\ [][NextVoice]_vars

AudioRound == last.op = "process" /\ last.mode = "audio"

\* C24: in audio mode a dequeued item that recognize_command answers with "Unknown
\* Command", "Already Landed" or "Already Flying" is dropped: execute_command is not
\* called, no transport call is made and the flag keeps its value.
C24_IgnoredItemDropped ==
  (AudioRound /\ recognize_command(variant, last.arg, last.air) \in Ignored)
    => /\ last.result \in Ignored \cup {"error"}
       /\ calls = <<>>
       /\ drone_in_air = last.air

\* "take off" was dequeued in the air and dropped as "Already Flying".
C24_Witness ==
  /\ AudioRound /\ last.arg = "take off" /\ last.air
  /\ last.result = "Already Flying" /\ drone_in_air /\ calls = <<>>

\* The transport calls of a round all succeeded.
Nominal(r) == AllOk(r.calls)

\* C12: in audio mode, starting Grounded, the processor handles "take off", "land",
\* "move forward" in this order as follows (each transport call succeeding): one
\* takeoff call and the flag Airborne; then one land call and the flag Grounded;
\* then "move forward" is rejected without a transport call.
C12_VoiceScenario ==
  (Len(scenario) >= 1 /\ ~scenario[1].air)
    => /\ Nominal(scenario[1])
            => /\ scenario[1].result = "Ok" /\ scenario[1].after
               /\ scenario[1].calls = <<Call("takeoff", "", "execute", TRUE)>>
       /\ (Len(scenario) >= 2 /\ scenario[1].result = "Ok" /\ Nominal(scenario[2]))
            => /\ scenario[2].air
               /\ scenario[2].result = "Ok" /\ ~scenario[2].after
               /\ scenario[2].calls = <<Call("land", "", "execute", TRUE)>>
       /\ (Len(scenario) = 3 /\ scenario[1].result = "Ok" /\ scenario[2].result = "Ok")
            => /\ ~scenario[3].air
               /\ scenario[3].result = "Rejected" /\ ~scenario[3].after
               /\ scenario[3].calls = <<>>

\* The three rounds of the scenario have run: Ok, Ok, Rejected.
C12_Witness ==
  /\ Len(scenario) = 3 /\ ~scenario[1].air
  /\ scenario[1].result = "Ok" /\ scenario[2].result = "Ok"
  /\ scenario[3].result = "Rejected" /\ ~drone_in_air

\* The microphone hears "land".
VoiceLand == Hears({"land"})

NextLoop ==
  \/ VoiceLand
  \/ TextInput
  \/ CommandProcessor
  \/ ChangeModality

\* The command processor is a thread of its own: it is scheduled again and again.
SpecLoop == Init /\ [][NextLoop]_vars /\ WF_vars(CommandProcessor)

\* C17: an exception raised while a dequeued item is processed does not end the
\* command processor: unless shutdown is signalled or the queue runs empty again and
\* again, rounds of the processor keep occurring, so what is enqueued is dequeued.
C17_LoopSurvivesException ==
  \/ []<>(stop_event \/ command_queue = <<>>)
  \/ []<><<CommandProcessor>>_vars

\* A round raised, items are waiting, and the processor is still in its loop.
C17_Witness ==
  /\ last.op = "process" /\ last.result = "error"
  /\ command_queue # <<>> /\ tasks["processor"] = "ready" /\ ~stop_event

(***************************************************************************)
(* Properties of the Command Queue.                                        *)
(***************************************************************************)
\* C7: whichever producer enqueues onto a full queue, the oldest item is evicted and
\* the new item becomes the newest: the new item is not dropped, the producer does
\* not block.
C7_FullQueueEvictsOldest ==
  (last.op \in Producers /\ full(q_before, variant))
    => /\ put_waiting = ""
       /\ command_queue = Append(Tail(q_before), last.arg)

\* C8: in every variant the Command Queue never holds more than 5 items.
C8_AtMostFive == Len(command_queue) <= COMMAND_QUEUE_SIZE
(***************************************************************************)
(* The clock, the Frame Relay and the vision-query path.                   *)
(***************************************************************************)
\* Bounds: the last second of the clock, the number of frames captured.
MaxTime == 15

MaxFrames == 3

\* A second passes.
ClockTick ==
  /\ now < MaxTime
  /\ now' = now + 1
  /\ UNCHANGED <<appVars, queueVars, gestureVars, raceVars, obsVars>>
  /\ UNCHANGED <<last_vlm_command_time, last_ping_time, relayVars, taskVars, scenario, vlm_call>>

\* queue.Queue(maxsize=1)
FRAME_QUEUE_SIZE == 1

\* The capture loop has read a frame and tests frame_queue.full(): it goes on to the
\* plain put, or to the get_nowait / put_nowait pair.  (In the modular application the
\* loop fills CameraHandler.frame_queue; CommandHandler takes from a queue of its own.)
CaptureFrame ==
  /\ ~stop_event
  /\ capture = "idle"
  /\ frame_no < MaxFrames
  /\ frame_no' = frame_no + 1
  /\ capture' = IF Len(frame_queue) >= FRAME_QUEUE_SIZE THEN "evict" ELSE "put"
  /\ UNCHANGED <<appVars, queueVars, gestureVars, raceVars, obsVars>>
  /\ UNCHANGED <<clockVars, frame_queue, taken, taskVars, scenario, vlm_call>>

\* frame_q.put(frame.copy()): returns once there is room.
CapturePut ==
  /\ capture = "put"
  /\ Len(frame_queue) < FRAME_QUEUE_SIZE
  /\ frame_queue' = Append(frame_queue, frame_no)
  /\ capture' = "idle"
  /\ UNCHANGED <<appVars, queueVars, gestureVars, raceVars, obsVars>>
  /\ UNCHANGED <<clockVars, frame_no, taken, taskVars, scenario, vlm_call>>

\* frame_q.get_nowait(): the old frame is removed; on queue.Empty the except clause
\* passes and the new frame is not put.
CaptureEvict ==
  /\ capture = "evict"
  /\ IF frame_queue # <<>>
     THEN frame_queue' = Tail(frame_queue) /\ capture' = "replace"
     ELSE frame_queue' = frame_queue /\ capture' = "idle"
  /\ UNCHANGED <<appVars, queueVars, gestureVars, raceVars, obsVars>>
  /\ UNCHANGED <<clockVars, frame_no, taken, taskVars, scenario, vlm_call>>

\* frame_q.put_nowait(frame.copy()), queue.Full passed over; CameraHandler uses the
\* waiting put here.
CaptureReplace ==
  /\ capture = "replace"
  /\ variant = "mod" => Len(frame_queue) < FRAME_QUEUE_SIZE
  /\ frame_queue' = IF Len(frame_queue) < FRAME_QUEUE_SIZE
                    THEN Append(frame_queue, frame_no) ELSE frame_queue
  /\ capture' = "idle"
  /\ UNCHANGED <<appVars, queueVars, gestureVars, raceVars, obsVars>>
  /\ UNCHANGED <<clockVars, frame_no, taken, taskVars, scenario, vlm_call>>

\* The operator selects vlm mode.
SelectVlm == ChangeModalityTo({"vlm"})

NextVlm ==
  \/ TextInput
  \/ SendVlmCommandGui
  \/ PutCompletes
  \/ CommandProcessor
  \/ ClockTick
  \/ CaptureFrame
  \/ CapturePut
  \/ CaptureEvict
  \/ CaptureReplace
  \/ SelectVlm

SpecVlm == Init /\ [][NextVlm]_vars

\* The last operation was a processor round in vlm mode / one that called the model.
VlmRound == last.op = "process" /\ last.mode = "vlm"

ModelCalled == VlmRound /\ last.result \notin {"skipped", "no_frame", "error"}

\* C11: in vlm mode a dequeued query leads to a vision-model call only if more than 3
\* seconds have passed since the last dispatch, which then becomes the time of the
\* call; a query processed 1 second after a dispatch (or up to 3) is dropped without
\* a model call or a transport call and leaves the timestamp as it was.
C11_CooldownGatesModelCall ==
  /\ ModelCalled => (last.time - last.stamp > vlm_cooldown /\ last_vlm_command_time = last.time)
  /\ (VlmRound /\ last.time - last.stamp <= vlm_cooldown)
       => /\ last.result \in {"skipped", "error"}
          /\ calls = <<>>
          /\ last_vlm_command_time = last.stamp

\* A query processed one second after a dispatch was skipped, timestamp unchanged.
C11_Witness ==
  /\ VlmRound /\ last.stamp > 0 /\ last.time - last.stamp = 1
  /\ last.result = "skipped" /\ last_vlm_command_time = last.stamp

\* C22: in vlm mode with the cooldown elapsed, a query dequeued while the Frame Relay
\* is empty is dropped: no model call, no transport call, the flag and the cooldown
\* timestamp as they were.
C22_NoFrameDropsQuery ==
  (VlmRound /\ last.time - last.stamp > vlm_cooldown /\ vlm_call.frames = 0)
    => /\ ~vlm_call.called
       /\ last.result \in {"no_frame", "error"}
       /\ calls = <<>>
       /\ drone_in_air = last.air
       /\ last_vlm_command_time = last.stamp

\* After a first dispatch, a later query found the cooldown elapsed and no frame.
C22_Witness ==
  /\ VlmRound /\ last.stamp > 0 /\ last.time - last.stamp > vlm_cooldown
  /\ vlm_call.frames = 0 /\ last.result = "no_frame"
  /\ last_vlm_command_time = last.stamp

\* The vision path with the vehicle on the ground or in the air: one query is answered
\* by the model, or the call fails.
NextAnswer ==
  \/ FlightCommand
  \/ SelectVlm
  \/ TextInput
  \/ SendVlmCommandGui
  \/ PutCompletes
  \/ CaptureFrame
  \/ CapturePut
  \/ CommandProcessor

SpecAnswer == Init /\ [][NextAnswer]_vars

\* The Sink's execute was called by the last round.
SinkCalled == last.result \in {"Ok", "Fails", "Rejected"}

\* C23: in vlm mode, for every accepted query the loop runs recognize_command over the
\* model's response and, when the result is a flight command, calls execute_command
\* with it, in every variant.
C23_ResponseNormalizedAndExecuted ==
  (VlmRound /\ vlm_call.called) =>
    LET cmd == recognize_command(variant, vlm_call.response, last.air) IN
      IF cmd \in Ignored THEN ~SinkCalled /\ calls = <<>>
      ELSE /\ SinkCalled
           /\ last.result = "Ok" => calls = <<Primitive(cmd, "execute", TRUE)>>

\* C26: a failed vision-model call discards the query: no flight command comes out of
\* the failure and no transport call is made, whatever the text of the error.
C26_FailedModelCallDiscarded ==
  (VlmRound /\ vlm_call.failed) =>
    /\ ~SinkCalled
    /\ calls = <<>>
    /\ drone_in_air = last.air

\* The microphone hears "take off": in this specification the only voice item, while
\* "land" is only ever typed as a vision query.
VoiceTakeoff == Hears({"take off"})

\* Voice items and vision queries wait on the queue while the operator changes mode.
NextStale ==
  \/ VoiceTakeoff
  \/ TextInput
  \/ SendVlmCommandGui
  \/ PutCompletes
  \/ ChangeModality
  \/ CaptureFrame
  \/ CapturePut
  \/ CommandProcessor

SpecStale == Init /\ [][NextStale]_vars

\* What a round in audio mode answers for an item.
VoiceResult(o) ==
  IF recognize_command(variant, o.arg, o.air) \in Ignored
  THEN o.result = recognize_command(variant, o.arg, o.air)
  ELSE o.result \in {"Ok", "Fails", "Rejected"}

\* C33: the loop handles each dequeued item by the mode read at the dequeue, whatever
\* the mode was when the item was put: in audio mode as a voice command (recognised
\* and executed, no model call), in vlm mode as a vision query (cooldown, frame, model
\* call with the item as the query), in idle and gesture mode not at all.
C33_ModeReadAtDequeue ==
  (last.op = "process" /\ last.result # "error") =>
    CASE last.mode = "audio" -> ~vlm_call.called /\ VoiceResult(last)
      [] last.mode = "vlm" ->
           /\ vlm_call.called <=> last.result \notin {"skipped", "no_frame"}
           /\ (vlm_call.called /\ variant = "gui") => last.result = "answered"
           /\ (vlm_call.called /\ variant # "gui")
                => VoiceResult([last EXCEPT !.arg = vlm_call.response])
      [] OTHER -> last.result = "discarded" /\ ~vlm_call.called /\ calls = <<>>

\* Monolithic GUI: "take off", heard in audio mode, was dequeued in vlm mode and sent
\* to the vision model as a query.
C33_Witness ==
  /\ variant = "gui" /\ last.op = "process" /\ last.arg = "take off"
  /\ last.mode = "vlm" /\ vlm_call.called /\ ~vlm_call.failed
  /\ last.result = "answered"

\* The converse: the query "land", typed in vlm mode, was dequeued in audio mode and
\* handled as a voice command.
C33_Converse ==
  /\ variant = "gui" /\ last.op = "process" /\ last.arg = "land"
  /\ last.mode = "audio" /\ ~vlm_call.called /\ last.result = "Already Landed"

\* C35: every captured frame reaches the queue the vision path takes from: when the
\* capture loop has finished its put and a captured frame was not yet taken, a query
\* dequeued in vlm mode with the cooldown elapsed finds a frame and the model is
\* called, in every variant.
C35_CapturedFrameReachesQuery ==
  (/\ VlmRound /\ last.result # "error"
   /\ last.time - last.stamp > vlm_cooldown
   /\ vlm_call.pending)
    => vlm_call.called

\* C19: the Frame Relay never holds more than one frame, the capture loop's put never
\* waits, and once a put of frame f is complete f is in the slot unless the vision
\* path has taken f: f is never thrown away leaving the slot empty or an older frame.
C19_LatestWinsSlot ==
  /\ Len(frame_queue) <= FRAME_QUEUE_SIZE
  /\ capture = "put" => Len(frame_queue) < FRAME_QUEUE_SIZE
  /\ (capture = "idle" /\ frame_no > 0 /\ taken # frame_no) => frame_queue = <<frame_no>>

(***************************************************************************)
(* Gesture debounce and the gesture path.                                  *)
(***************************************************************************)
\* prob[0][className] > 0.9, in hundredths.
CONFIDENCE_THRESHOLD == 90

Confidences == {90, 95}

\* gesture_labels.get(className, "unknown"), on the labels tried.
Labels == {"forward", "up", "down", "land"}

\* What the hand detector and the classifier report for one frame.
NoHand == [hand |-> FALSE, label |-> "", confidence |-> 0]

Detections ==
  {NoHand} \cup {[hand |-> TRUE, label |-> l, confidence |-> c] : l \in Labels, c \in Confidences}

Accepted(d) == d.hand /\ d.confidence > CONFIDENCE_THRESHOLD

\* "Require 5 consecutive frames".
REQUIRED_FRAMES == 5

\* A counter that is not restarted when the label changes.
NextCountKept(same, count) == count + 1

\* if gesture == temp: count += 1  else: temp = gesture; count = 0
NextCount(same, count) == IF same THEN count + 1 ELSE 0

\* The test that accepts the run: == 5 in both monolithic variants, >= 5 in
\* GestureProcessor.
Reached(v, count) ==
  IF v = "mod" THEN count >= REQUIRED_FRAMES ELSE count = REQUIRED_FRAMES

Debounced(temp, count, emit) == [temp |-> temp, count |-> count, emit |-> emit]

\* One frame through the debounce: the new label, the new counter and the gesture
\* emitted ("" if none).  Only GestureProcessor empties the state when no hand is
\* seen, and only it has a cooldown between emissions.
Debounce(v, temp, count, cool, d) ==
  IF ~d.hand THEN (IF v = "mod" THEN Debounced("", 0, "") ELSE Debounced(temp, count, ""))
  ELSE IF ~Accepted(d) THEN Debounced(temp, count, "")
  ELSE LET c == NextCount(d.label = temp, count) IN
         IF Reached(v, c) /\ (v = "mod" => cool)
         THEN Debounced(d.label, 0, d.label)
         ELSE Debounced(d.label, c, "")

GestureMoves == {"forward", "backward", "right", "left", "up", "down"}

\* The velocity vector of the console gesture path.
RcVector(g) ==
  CASE g = "forward"  -> "0,20,0,0"
    [] g = "backward" -> "0,-20,0,0"
    [] g = "right"    -> "20,0,0,0"
    [] g = "left"     -> "-20,0,0,0"
    [] g = "up"       -> "0,0,20,0"
    [] g = "down"     -> "0,0,-20,0"

\* The gesture -> command table.
gesture_mapping(g) ==
  CASE g = "forward"  -> "move_forward"
    [] g = "backward" -> "move_back"
    [] g = "left"     -> "move_left"
    [] g = "right"    -> "move_right"
    [] g = "up"       -> "move_up"
    [] g = "down"     -> "move_down"
    [] g = "flip"     -> "flip_f"
    [] g = "land"     -> "land"

Mapped == GestureMoves \cup {"flip", "land"}

\* What an accepted gesture does: the flag after, the calls, the result and whether a
\* reset_gesture_rc callback was scheduled.
Effect(air, cs, result, scheduled) ==
  [air |-> air, calls |-> cs, result |-> result, scheduled |-> scheduled]

FromSink(o, after, scheduled) == Effect(o.air, o.calls \o after, o.result, scheduled)

\* drone_control.py: moves are velocity commands sent straight to the transport,
\* flown or not; flip and land go through execute_command; half a second later the
\* velocity is zeroed.  A failing direct call leaves the try block.
gesture_cli(air, g, ok1, ok2, ok3) ==
  IF g \in GestureMoves THEN
    LET first == Call("send_rc_control", RcVector(g), "gesture", ok1) IN
      IF ok1 THEN Effect(air, <<first, Hover("gesture", ok3)>>, "Direct", FALSE)
      ELSE Effect(air, <<first>>, "Fails", FALSE)
  ELSE IF g \in {"flip", "land"} THEN
    FromSink(execute_command_cli(air, gesture_mapping(g), ok1, ok2),
             <<Hover("gesture", ok3)>>, FALSE)
  ELSE Effect(air, <<Hover("gesture", ok3)>>, "Direct", FALSE)

\* drone_gui.py execute_gesture_command: grounded, only "forward" acts, as takeoff
\* through the Sink; airborne, moves and flip call the transport directly and land
\* goes through the Sink; then reset_gesture_rc is scheduled.
execute_gesture_command(mode, air, g, ok1, ok2) ==
  IF ~air /\ g # "land" THEN
    IF g = "forward"
    THEN FromSink(execute_command_gui(mode, air, "takeoff", ok1, ok2), <<>>, FALSE)
    ELSE Effect(air, <<>>, "Ignored", FALSE)
  ELSE IF g \in GestureMoves \cup {"flip"} THEN
    Effect(air, <<Primitive(gesture_mapping(g), "gesture", ok1)>>,
           IF ok1 THEN "Direct" ELSE "Fails", ok1)
  ELSE IF g = "land" THEN
    FromSink(execute_command_gui(mode, air, "land", ok1, ok2), <<>>, TRUE)
  ELSE Effect(air, <<>>, "Ignored", TRUE)

\* gui/command_handler.py process_gesture_command: the mapped command goes to the Sink.
process_gesture_command(mode, air, g, ok1, ok2) ==
  IF g \in Mapped
  THEN FromSink(execute_command_mod(mode, air, gesture_mapping(g), ok1, ok2), <<>>, FALSE)
  ELSE Effect(air, <<>>, "Ignored", FALSE)
\* What a frame without an emission does: with no hand in view the console loop
\* zeroes the velocity (outside any try), the monolithic GUI does so when airborne.
no_gesture(v, air, d, ok1) ==
  IF d.hand THEN Effect(air, <<>>, "", FALSE)
  ELSE IF v = "cli" \/ (v = "gui" /\ air)
       THEN Effect(air, <<Hover("gesture", ok1)>>, "", FALSE)
       ELSE Effect(air, <<>>, "", FALSE)

gesture_effect(v, mode, air, g, ok1, ok2, ok3) ==
  CASE v = "cli" -> gesture_cli(air, g, ok1, ok2, ok3)
    [] v = "gui" -> execute_gesture_command(mode, air, g, ok1, ok2)
    [] v = "mod" -> process_gesture_command(mode, air, g, ok1, ok2)

\* Bounds: frames counted in a run, counter value reached while GestureProcessor waits
\* for its cooldown, reset callbacks outstanding.
MaxRun == 6

MaxCount == 6

MaxPending == 1

Min(a, b) == IF a < b THEN a ELSE b

\* The run of consecutive accepted frames of one label, counted from outside the
\* debounce: frames so far, whether the run began on an empty debounce state, and
\* the length of the run of another label that its first frame ended.
RunAfter(r, d, wasEmpty) ==
  IF ~Accepted(d) THEN NoRun
  ELSE IF r.n > 0 /\ r.label = d.label
       THEN [r EXCEPT !.n = Min(r.n + 1, MaxRun), !.broke = 0]
       ELSE [label |-> d.label, n |-> 1, fresh |-> wasEmpty, broke |-> r.n]

\* time.sleep(0.5) ran inside the frame step: the console loop sleeps after the
\* gesture's command unless a direct velocity call raised and left the try block;
\* neither GUI sleeps.
Slept(v, g, ok1) == v = "cli" /\ ~(g \in GestureMoves /\ ~ok1)

\* The per-frame gesture step of the capture loop (run_drone_interface,
\* DroneApp.process_gestures, GestureProcessor.process_frame and its caller).
Frame ==
  /\ ~stop_event
  /\ GuiThreadFree
  /\ active_modality = "gesture"
  /\ variant # "mod" => gesture_model
  /\ variant = "mod" => (gesture_count < MaxCount \/ cooldown_over)
  /\ \E d \in Detections :
     LET deb == IF gesture_model
                THEN Debounce(variant, temp_gesture, gesture_count, cooldown_over, d)
                ELSE Debounced(temp_gesture, gesture_count, "")
         emits == deb.emit # ""
     IN
     \E ok1 \in Outcomes(emits \/ ~d.hand) :
     \E ok2 \in Outcomes(emits /\ ~ok1 /\ drone_in_air),
        ok3 \in Outcomes(emits /\ variant = "cli") :
       LET e == IF emits
                THEN gesture_effect(variant, active_modality, drone_in_air, deb.emit,
                                    ok1, ok2, ok3)
                ELSE no_gesture(variant, drone_in_air, d, ok1)
           before == IF last.op = "frame" THEN run ELSE NoRun
       IN /\ e.scheduled => reset_pending < MaxPending
          /\ temp_gesture' = deb.temp
          /\ gesture_count' = deb.count
          /\ cooldown_over' = IF variant = "mod" /\ deb.emit # "" THEN FALSE ELSE cooldown_over
          /\ just_executed' = IF emits /\ Slept(variant, deb.emit, ok1) THEN FALSE
                              ELSE IF emits /\ e.result \in {"Ok", "Direct"} THEN TRUE
                              ELSE just_executed
          /\ reset_pending' = IF e.scheduled THEN reset_pending + 1 ELSE reset_pending
          /\ drone_in_air' = e.air
          /\ stop_event' = (variant = "cli" /\ ~d.hand /\ ~ok1)
          /\ run' = RunAfter(before, d, temp_gesture = "" /\ gesture_count = 0)
          /\ Observe("frame",
                     IF Accepted(d) THEN d.label ELSE IF d.hand THEN "weak" ELSE "none",
                     deb.emit, e.calls)
  /\ UNCHANGED <<variant, gesture_model, active_modality, is_connected, queueVars, raceVars>>
  /\ UNCHANGED restVars

\* reset_gesture_rc, half a second after an accepted gesture.
ResetGestureRc ==
  /\ ~stop_event
  /\ GuiThreadFree
  /\ variant = "gui" /\ reset_pending > 0
  /\ reset_pending' = reset_pending - 1
  /\ \E ok \in Outcomes(active_modality = "gesture" /\ drone_in_air) :
       Observe("reset_gesture_rc", "", "",
               IF active_modality = "gesture" /\ drone_in_air
               THEN <<Hover("gesture_reset", ok)>> ELSE <<>>)
  /\ UNCHANGED <<variant, gesture_model, active_modality, drone_in_air, is_connected,
                 stop_event, queueVars, raceVars, temp_gesture, gesture_count,
                 cooldown_over, just_executed, run>>
  /\ UNCHANGED restVars

\* More than gesture_cooldown (0.5 s) has passed since the last accepted gesture.
CooldownElapses ==
  /\ ~stop_event
  /\ (variant = "mod" /\ ~cooldown_over) \/ just_executed
  /\ cooldown_over' = TRUE
  /\ just_executed' = FALSE
  /\ UNCHANGED <<variant, gesture_model, active_modality, drone_in_air, is_flying,
                 is_connected, stop_event, queueVars, raceVars, temp_gesture,
                 gesture_count, reset_pending, run, last, prev, calls, q_before>>
  /\ UNCHANGED restVars

NextGesture ==
  \/ Frame
  \/ ResetGestureRc
  \/ CooldownElapses
  \/ FlightCommand
  \/ SelectGesture

SpecGesture == Init /\ [][NextGesture]_vars
(***************************************************************************)
(* Properties of the gesture debounce.                                     *)
(***************************************************************************)
\* C9: starting from an empty debounce state in gesture mode, five consecutive frames
\* of one label with confidence above 0.9 emit that gesture exactly once, on the
\* fifth frame, and leave the counter at 0; the four frames before emit nothing.
C9_EmitsOnFifthFrame ==
  (last.op = "frame" /\ run.fresh /\ run.n \in 1..REQUIRED_FRAMES)
    => IF run.n = REQUIRED_FRAMES
       THEN last.result = run.label /\ gesture_count = 0
       ELSE last.result = ""

C29_NoHandResetsDebounce ==
  (last.op = "frame" /\ last.arg = "none")
    => /\ last.result = ""
       /\ temp_gesture = "" /\ gesture_count = 0

\* C30: once an accepted gesture was executed, no gesture is accepted before 0.5 s
\* have passed, in every variant of the gesture path.
C30_AcceptedGesturesSpaced ==
  (last.op = "frame" /\ last.result # "") => ~last.recent

\* C20: while the flag says Grounded, an accepted "forward" gesture is turned into
\* takeoff (one takeoff call, after which the flag says Airborne) and every other
\* accepted gesture is ignored without any transport call, in every gesture path.
C20_GroundedGestureRule ==
  (last.op = "frame" /\ last.result # "" /\ ~last.air)
    => IF last.result = "forward"
       THEN /\ calls # <<>> /\ calls[1].prim = "takeoff"
            /\ calls[1].ok => (drone_in_air /\ Len(calls) = 1)
       ELSE calls = <<>>

(***************************************************************************)
(* Shutdown and the background tasks.                                      *)
(***************************************************************************)
\* The steps of the shutdown sequence in the order the code performs them, airborne
\* or not, with the PC camera `opened` or not.
\*   console (key q): the capture loop sets the stop event and breaks, releases the
\*     camera, and the finally block of the main program lands, then ends the stream;
\*   monolithic GUI: stop event, land, camera, stream, destroy;
\*   modular GUI: keep_alive_active is cleared and speech_handler.stop_listener(),
\*     which SpeechHandler does not have, raises: nothing else runs.
ShutdownSteps(v, air, opened) ==
  LET camera == IF opened THEN <<"camera">> ELSE <<>> IN
    CASE v = "cli" -> camera \o <<IF air THEN "land" ELSE "hover", "streamoff", "end">>
      [] v = "gui" -> (IF air THEN <<"land">> ELSE <<>>) \o camera \o <<"streamoff", "destroy">>
      [] v = "mod" -> <<>>

\* The transport calls of the shutdown sequence; a failing one is caught.
ShutdownCalls(v, air, ok) ==
  CASE v = "cli" -> <<IF air THEN Call("land", "", "shutdown", ok) ELSE Hover("shutdown", ok)>>
    [] v = "gui" -> IF air THEN <<Call("land", "", "shutdown", ok)>> ELSE <<>>
    [] v = "mod" -> <<>>

\* The operator quits: key q of the console application, on_close (confirmed) of the GUIs.
OnClose ==
  /\ ~stop_event
  /\ GuiThreadFree
  /\ \E opened \in BOOLEAN, ok \in Outcomes(variant = "cli" \/ (variant = "gui" /\ drone_in_air)) :
       /\ shutdown_log' = ShutdownSteps(variant, drone_in_air, opened)
       /\ Observe("on_close", IF opened THEN "opened" ELSE "", IF variant = "mod" THEN "raised" ELSE "done",
                  ShutdownCalls(variant, drone_in_air, ok))
  /\ stop_event' = (variant # "mod")
  /\ keep_alive_active' = (variant # "mod" /\ keep_alive_active)
  /\ UNCHANGED <<variant, gesture_model, active_modality, drone_in_air, is_connected>>
  /\ UNCHANGED <<queueVars, gestureVars, raceVars, clockVars, relayVars, tasks, scenario, vlm_call>>

\* The threads each application starts: the console main program starts four, the
\* monolithic GUI two; the modular GUI never calls start_threads, and keep_drone_alive
\* is started by none of them.
TasksOf(v) ==
  CASE v = "cli" -> {"voice", "text", "processor", "keepalive"}
    [] v = "gui" -> {"voice", "processor"}
    [] v = "mod" -> {}

\* The calls without a timeout that a task waits in: input() of the text reader in
\* vlm mode, Recognizer.listen() of the voice listener in its listening modes.
Waits(t, v, mode) ==
  CASE t = "text" -> v = "cli" /\ mode = "vlm"
    [] t = "voice" -> (v = "cli" /\ mode \in {"audio", "vlm"}) \/ (v = "gui" /\ mode = "audio")
    [] OTHER -> FALSE

\* A task passes its loop test with the stop event clear and enters its waiting call.
TaskBlocks(t) ==
  /\ ~stop_event
  /\ t \in TasksOf(variant)
  /\ tasks[t] = "ready"
  /\ Waits(t, variant, active_modality)
  /\ tasks' = [tasks EXCEPT ![t] = "blocked"]
  /\ UNCHANGED <<appVars, queueVars, gestureVars, raceVars, obsVars>>
  /\ UNCHANGED <<clockVars, relayVars, keep_alive_active, shutdown_log, scenario, vlm_call>>

\* The operator types a line / speaks: the waiting call returns.  The text reader
\* enqueues the line if the stop event is clear and breaks if it is set; the voice
\* listener enqueues what it heard and goes back to its loop test.
InputArrives(t) ==
  /\ tasks[t] = "blocked"
  /\ \E item \in IF t = "text" THEN Queries ELSE Utterances :
       LET dropped == t = "text" /\ stop_event IN
         /\ command_queue' = IF dropped THEN command_queue
                             ELSE enqueue_command(command_queue, variant, item)
         /\ tasks' = [tasks EXCEPT ![t] = IF dropped THEN "exited" ELSE "ready"]
         /\ Enqueued(t, item)
  /\ UNCHANGED <<variant, gesture_model, active_modality, drone_in_air, is_connected,
                 stop_event, put_waiting, is_listening, gestureVars, raceVars>>
  /\ UNCHANGED <<clockVars, relayVars, keep_alive_active, shutdown_log, scenario, vlm_call>>

\* A task at its loop test finds the stop event set and leaves its loop.
TaskExits(t) ==
  /\ stop_event
  /\ t \in TasksOf(variant)
  /\ tasks[t] = "ready"
  /\ tasks' = [tasks EXCEPT ![t] = "exited"]
  /\ UNCHANGED <<appVars, queueVars, gestureVars, raceVars, obsVars>>
  /\ UNCHANGED <<clockVars, relayVars, keep_alive_active, shutdown_log, scenario, vlm_call>>

NextShutdown ==
  \/ OnClose
  \/ \E t \in Tasks : TaskBlocks(t)
  \/ \E t \in Tasks : InputArrives(t)
  \/ \E t \in Tasks : TaskExits(t)
  \/ ChangeModality
  \/ FlightCommand

\* Every thread is scheduled; nothing makes the operator type or speak.
SpecShutdown ==
  Init /\ [][NextShutdown]_vars /\ \A t \in Tasks : WF_vars(TaskExits(t))

\* What the shutdown sequence releases or ends.
Releases == {"camera", "streamoff", "end", "destroy"}

\* Every `a` in the log comes before every `b`.
Before(log, a, b) ==
  \A i, j \in DOMAIN log : (log[i] = a /\ log[j] = b) => i < j

\* C15: when the operator quits while the flag says Airborne, the shutdown sequence
\* sends land to the vehicle, and does so before it releases the camera, ends the
\* stream or the transport, or destroys the window, in every application.
C15_LandBeforeRelease ==
  (last.op = "on_close" /\ last.air)
    => /\ Count("land", calls) = 1
       /\ \E i \in DOMAIN shutdown_log : shutdown_log[i] = "land"
       /\ \A r \in Releases : Before(shutdown_log, "land", r)

\* Every task the application started has left its loop.
AllExited == \A t \in TasksOf(variant) : tasks[t] = "exited"

\* C16: once the stop event is set, every task (voice listener, text reader, command
\* processor, keep-alive) sees it and leaves its loop; none stays blocked for ever.
C16_StopReachesEveryTask == stop_event ~> AllExited

\* C34: a voice transcript is put on the Command Queue only while the mode is audio,
\* also when the mode was changed while the listener was capturing.
C34_VoiceEnqueuedOnlyInVoiceMode ==
  last.op \in {"voice", "speech"} => last.mode = "audio"

\* seconds between pings
PING_INTERVAL == 2

\* One round of keep_connection_alive: when more than PING_INTERVAL has passed since
\* the last ping that got through, the battery is queried as a ping; a failure is
\* caught; then the thread sleeps a second.
KeepConnectionAlive ==
  /\ ~stop_event
  /\ variant = "cli"
  /\ tasks["keepalive"] = "ready"
  /\ LET due == now - last_ping_time > PING_INTERVAL IN
     \E ok \in Outcomes(due) :
       /\ last_ping_time' = IF due /\ ok THEN now ELSE last_ping_time
       /\ tasks' = [tasks EXCEPT !["keepalive"] =
                      IF LoopAfter(due /\ ~ok) = "ready" THEN "sleeping" ELSE "exited"]
       /\ Observe("ping", "", IF ~due THEN "" ELSE IF ok THEN "Ok" ELSE "Fails",
                  IF due THEN <<Call("get_battery", "", "keepalive", ok)>> ELSE <<>>)
  /\ UNCHANGED <<variant, gesture_model, active_modality, drone_in_air, is_connected,
                 stop_event, queueVars, gestureVars, raceVars>>
  /\ UNCHANGED <<now, last_vlm_command_time, relayVars, keep_alive_active, shutdown_log,
                 scenario, vlm_call>>

\* time.sleep(1) is over.
KeepAliveWakes ==
  /\ tasks["keepalive"] = "sleeping"
  /\ tasks' = [tasks EXCEPT !["keepalive"] = "ready"]
  /\ UNCHANGED <<appVars, queueVars, gestureVars, raceVars, obsVars>>
  /\ UNCHANGED <<clockVars, relayVars, keep_alive_active, shutdown_log, scenario, vlm_call>>

NextKeepAlive ==
  \/ WatchdogTick
  \/ KeepConnectionAlive
  \/ KeepAliveWakes
  \/ ClockTick
  \/ OnClose

\* Both keep-alive threads are scheduled again and again.
SpecKeepAlive ==
  /\ Init /\ [][NextKeepAlive]_vars
  /\ WF_vars(WatchdogTick) /\ WF_vars(KeepConnectionAlive) /\ WF_vars(KeepAliveWakes)

Calls(t, v, mode) ==
  IF t = "processor"
  THEN IF ProcessorStarted(v) /\ (mode = "audio" \/ (v = "cli" /\ mode = "vlm"))
       THEN {"takeoff", "land"} ELSE {}
  ELSE IF v = "cli" THEN (IF mode = "gesture" THEN {"land"} ELSE {})
       ELSE {"takeoff", "land"}

\* Whether the call gets past the idle test and the guard of its branch.
Admitted(v, mode, air, cmd) ==
  /\ (v # "cli" => mode # "idle")
  /\ IF cmd = "takeoff" THEN TakeoffGuard(air) ELSE LandGuard(air)

\* The last two of the takeoff/land calls that succeeded.
Last2(h) == IF Len(h) > 2 THEN Tail(h) ELSE h

\* First half of execute_command on thread t: the tests, then the transport call is sent.
SinkCheck(t) ==
  /\ ~stop_event
  /\ put_waiting = ""
  /\ pc[t].at = "idle"
  /\ \E cmd \in Calls(t, variant, active_modality) :
       IF Admitted(variant, active_modality, drone_in_air, cmd)
       THEN /\ pc' = [pc EXCEPT ![t] = [at |-> "calling", cmd |-> cmd]]
            /\ Observe("sent", cmd, "", <<>>)
       ELSE /\ pc' = pc
            /\ Observe("execute", cmd, "Rejected", <<>>)
  /\ UNCHANGED <<variant, gesture_model, active_modality, drone_in_air, is_connected,
                 stop_event, queueVars, gestureVars, hist, enq, processor_thread,
                 processors, processor_stop>>
  /\ UNCHANGED restVars

\* Second half: the transport call returns and the flag is stored, or it raises and
\* the handler stabilises if the flag, as it stands now, says airborne.
SinkReturn(t) ==
  /\ pc[t].at = "calling"
  /\ \E ok1 \in BOOLEAN : \E ok2 \in Outcomes(~ok1 /\ drone_in_air) :
       LET o == Dispatch(drone_in_air, pc[t].cmd, ok1, ok2) IN
         /\ drone_in_air' = o.air
         /\ hist' = IF ok1 THEN Last2(Append(hist, pc[t].cmd)) ELSE hist
         /\ Observe("execute", pc[t].cmd, o.result, o.calls)
  /\ pc' = [pc EXCEPT ![t] = NoCall]
  /\ UNCHANGED <<variant, gesture_model, active_modality, is_connected, stop_event,
                 queueVars, gestureVars, enq, processor_thread, processors,
                 processor_stop>>
  /\ UNCHANGED restVars

NextRace ==
  \/ \E t \in Threads : SinkCheck(t)
  \/ \E t \in Threads : SinkReturn(t)
  \/ ChangeModality

SpecRace == Init /\ [][NextRace]_vars

\* Both threads are past the guard of the same branch, their transport calls sent.
BothCalling(cmd) == \A t \in Threads : pc[t].at = "calling" /\ pc[t].cmd = cmd

\* C4: under every interleaving of Sink calls from the processor thread and from the
\* GUI / capture thread, the test of the flag and its update act as one step: two
\* takeoff calls are never sent, nor do two succeed, without a land call between
\* them, and likewise two land calls without a takeoff between them.
C4_NoDoubleTakeoffOrLand ==
  /\ \A cmd \in {"takeoff", "land"} : ~BothCalling(cmd)
  /\ hist \notin {<<"takeoff", "takeoff">>, <<"land", "land">>}

(***************************************************************************)
(* The drop-oldest enqueue, step by step.  The producers take no lock:     *)
(* between full(), get_nowait() and the put another producer or the        *)
(* command processor may act on the queue.                                 *)
(***************************************************************************)
\* Whether thread t is at an enqueue: the voice listener and the console text reader
\* in the modes they listen in; CommandHandler.enqueue_command, called for a query
\* sent in vlm mode.
Enqueues(t, v, mode) ==
  Waits(t, v, mode) \/ (t = "text" /\ v = "mod" /\ mode = "vlm")

\* A get_nowait() that removes the newest item.
get_nowait_newest(q) == IF q = <<>> THEN q ELSE SubSeq(q, 1, Len(q) - 1)

\* Queue.get_nowait(): the oldest item is removed; queue.Empty is passed over.
get_nowait(q) == IF q = <<>> THEN q ELSE Tail(q)

\* if not cmd_q.full(): ... else: ...
EnqueueCheck(t) ==
  /\ ~stop_event
  /\ enq[t].at = "idle"
  /\ Enqueues(t, variant, active_modality)
  /\ \E item \in IF t = "text" THEN Queries ELSE Utterances :
       LET isFull == full(command_queue, variant) IN
         /\ enq' = [enq EXCEPT ![t] = [at |-> IF isFull THEN "get_nowait" ELSE "put",
                                       item |-> item]]
         /\ Observe("full", item, IF isFull THEN "full" ELSE "room", <<>>)
  /\ UNCHANGED <<variant, gesture_model, active_modality, drone_in_air, is_connected,
                 stop_event, queueVars, gestureVars, pc, hist, processor_thread,
                 processors, processor_stop>>
  /\ UNCHANGED restVars

\* cmd_q.put(item): returns once there is room.
EnqueuePut(t) ==
  /\ enq[t].at = "put"
  /\ ~full(command_queue, variant)
  /\ command_queue' = Append(command_queue, enq[t].item)
  /\ enq' = [enq EXCEPT ![t] = NoEnqueue]
  /\ Observe("put", enq[t].item, "Ok", <<>>)
  /\ UNCHANGED <<variant, gesture_model, active_modality, drone_in_air, is_connected,
                 stop_event, put_waiting, is_listening, gestureVars, pc, hist,
                 processor_thread, processors, processor_stop>>
  /\ UNCHANGED restVars

\* try: cmd_q.get_nowait()  except queue.Empty: pass
EnqueueGetNowait(t) ==
  /\ enq[t].at = "get_nowait"
  /\ command_queue' = get_nowait(command_queue)
  /\ enq' = [enq EXCEPT ![t].at = "put_nowait"]
  /\ Observe("get_nowait", enq[t].item, IF command_queue = <<>> THEN "Empty" ELSE "Ok", <<>>)
  /\ UNCHANGED <<variant, gesture_model, active_modality, drone_in_air, is_connected,
                 stop_event, put_waiting, is_listening, gestureVars, pc, hist,
                 processor_thread, processors, processor_stop>>
  /\ UNCHANGED restVars

\* try: cmd_q.put_nowait(item)  except queue.Full: pass (the console application and
\* the monolithic GUI) / a message and return False (CommandHandler).
EnqueuePutNowait(t) ==
  /\ enq[t].at = "put_nowait"
  /\ LET isFull == full(command_queue, variant) IN
       /\ command_queue' = IF isFull THEN command_queue
                           ELSE Append(command_queue, enq[t].item)
       /\ Observe("put_nowait", enq[t].item, IF isFull THEN "Full" ELSE "Ok", <<>>)
  /\ enq' = [enq EXCEPT ![t] = NoEnqueue]
  /\ UNCHANGED <<variant, gesture_model, active_modality, drone_in_air, is_connected,
                 stop_event, put_waiting, is_listening, gestureVars, pc, hist,
                 processor_thread, processors, processor_stop>>
  /\ UNCHANGED restVars

NextEnqueue ==
  \/ \E t \in Callers : EnqueueCheck(t)
  \/ \E t \in Callers : EnqueuePut(t)
  \/ \E t \in Callers : EnqueueGetNowait(t)
  \/ \E t \in Callers : EnqueuePutNowait(t)
  \/ CommandProcessor
  \/ ChangeModality

SpecEnqueue == Init /\ [][NextEnqueue]_vars

\* C32: the queue keeps the submission order under every interleaving: the command
\* processor takes the oldest pending item and leaves the others as they were, a put
\* adds its item behind all pending ones, and the drop-oldest overflow removes the
\* oldest item only, never one in the middle, and reorders nothing.
C32_SubmissionOrderKept ==
  /\ last.op = "process"
       => (q_before # <<>> /\ last.arg = Head(q_before) /\ command_queue = Tail(q_before))
  /\ last.op = "get_nowait"
       => command_queue = IF q_before = <<>> THEN <<>> ELSE Tail(q_before)
  /\ last.op \in {"put", "put_nowait"}
       => command_queue \in {q_before, Append(q_before, last.arg)}
  /\ last.op \notin {"process", "get_nowait", "put", "put_nowait"}
       => command_queue = q_before

\* The overflow removed the oldest of five pending items, the two oldest being
\* different, and the four others are in their order.
C32_Witness ==
  /\ last.op = "get_nowait" /\ Len(q_before) = COMMAND_QUEUE_SIZE
  /\ q_before[1] # q_before[2]
  /\ command_queue = Tail(q_before)

\* C38: with two producers and the command processor acting on the queue between the
\* steps of an enqueue, every enqueue returns without waiting (its put finds room),
\* removes at most one pending item, and leaves its new item on the queue as the
\* newest: the new item is never lost.
C38_EnqueueNeverWaitsNorLoses ==
  /\ \A t \in Callers : enq[t].at = "put" => ~full(command_queue, variant)
  /\ last.op = "get_nowait" => Len(command_queue) >= Len(q_before) - 1
  /\ last.op \in {"put", "put_nowait"}
       => /\ last.result = "Ok"
          /\ command_queue = Append(q_before, last.arg)

(***************************************************************************)
(* CommandHandler.start_processor / stop_processor, and the threads that   *)
(* run CommandHandler.command_processor.                                   *)
(***************************************************************************)
\* Bound: command-processor threads alive at once.
MaxProcessors == 2

\* A start_processor that does not look at the thread it has.
MayStartAlways(thread, alive) == TRUE

\* if self.processor_thread is None or not self.processor_thread.is_alive()
MayStart(thread, alive) == thread = "none" \/ ~alive

\* start_processor: unless the thread it created last is alive, the stop event is
\* cleared and a new thread is created and started.
StartProcessor ==
  /\ ~stop_event
  /\ variant = "mod"
  /\ LET starts == MayStart(processor_thread, processors > 0) IN
       /\ starts => processors < MaxProcessors
       /\ processor_stop' = (~starts /\ processor_stop)
       /\ processor_thread' = IF starts THEN "thread" ELSE processor_thread
       /\ processors' = IF starts THEN processors + 1 ELSE processors
       /\ Observe("start_processor", "", IF starts THEN "started" ELSE "alive", <<>>)
  /\ UNCHANGED <<variant, gesture_model, active_modality, drone_in_air, is_connected,
                 stop_event, queueVars, gestureVars, pc, hist, enq>>
  /\ UNCHANGED restVars

\* stop_processor: the stop event is set and the thread is joined for 2 seconds; the
\* thread leaves its loop within that time, or the join times out with the thread
\* still inside a round.
StopProcessor ==
  /\ ~stop_event
  /\ variant = "mod"
  /\ processor_stop' = TRUE
  /\ \E joined \in Outcomes(processors > 0) :
       /\ processors' = IF processors > 0 /\ joined THEN processors - 1 ELSE processors
       /\ Observe("stop_processor", "",
                  IF processors = 0 THEN "" ELSE IF joined THEN "joined" ELSE "timeout", <<>>)
  /\ UNCHANGED <<variant, gesture_model, active_modality, drone_in_air, is_connected,
                 stop_event, queueVars, gestureVars, pc, hist, enq, processor_thread>>
  /\ UNCHANGED restVars

\* while not self.stop_event.is_set(): a thread at its loop test finds the event set.
ProcessorExits ==
  /\ processors > 0 /\ processor_stop
  /\ processors' = processors - 1
  /\ Observe("processor_exits", "", "", <<>>)
  /\ UNCHANGED <<variant, gesture_model, active_modality, drone_in_air, is_connected,
                 stop_event, queueVars, gestureVars, pc, hist, enq, processor_thread,
                 processor_stop>>
  /\ UNCHANGED restVars

NextProcessor ==
  \/ StartProcessor
  \/ StopProcessor
  \/ ProcessorExits
  \/ SendVlmCommandMod
  \/ CommandProcessor

SpecProcessor == Init /\ [][NextProcessor]_vars

\* C39: after any sequence of start_processor and stop_processor calls at most one
\* command-processor thread is alive, also when stop_processor's join timed out with
\* the thread still running and start_processor was called next; and start_processor
\* clears the stop event only when it finds no thread alive.
C39_AtMostOneProcessor ==
  /\ processors <= 1
  /\ (last.op = "start_processor" /\ last.result = "alive")
       => (processors = 1 /\ processor_thread = "thread")

\* The join timed out and left the stop event set; start_processor, called next,
\* found the thread alive and created none.
C39_Witness ==
  /\ last.op = "start_processor" /\ last.result = "alive"
  /\ processor_stop /\ processors = 1

\* The vision path of the three variants with the capture loop running and the
\* modular command processor started.
\* The command processor with the producers of text items and the mode changes.
NextDrop ==
  \/ StartProcessor
  \/ VoiceTakeoff
  \/ TextInput
  \/ SendVlmCommandGui
  \/ PutCompletes
  \/ SendVlmCommandMod
  \/ ChangeModality
  \/ CommandProcessor

SpecDrop == Init /\ [][NextDrop]_vars

\* The transport calls of at most one execute_command: one dispatched call and, if it
\* failed, at most the one stabilising hover of the except branch.
OneExecute(cs) ==
  /\ Len(cs) <= 2
  /\ \A i \in DOMAIN cs : cs[i].via = "execute"
  /\ Len(cs) = 2 => (~cs[1].ok /\ cs[2] = Hover("execute", cs[2].ok))

\* C40: an item the command processor dequeues in idle or gesture mode is dropped: it
\* is not normalised, the vision model is not called, no transport call is made, the
\* flag keeps its value and the item is not put back; and whatever the mode, the
\* calls of a round are those of at most one execute_command.
C40_DroppedInIdleAndGesture ==
  last.op = "process" =>
    /\ q_before # <<>> /\ last.arg = Head(q_before) /\ command_queue = Tail(q_before)
    /\ OneExecute(calls)
    /\ last.mode \in {"idle", "gesture"} =>
         /\ last.result \in {"discarded", "error"}
         /\ calls = <<>>
         /\ ~vlm_call.called
         /\ drone_in_air = last.air

\* "land" was dequeued in gesture mode with the vehicle in the air and dropped.
C40_Witness ==
  /\ last.op = "process" /\ last.arg = "land" /\ last.mode = "gesture" /\ last.air
  /\ last.result = "discarded" /\ calls = <<>> /\ drone_in_air
  /\ command_queue = Tail(q_before)

NextRelay ==
  \/ StartProcessor
  \/ SendVlmCommandMod
  \/ SendVlmCommandGui
  \/ PutCompletes
  \/ TextInput
  \/ SelectVlm
  \/ CaptureFrame
  \/ CapturePut
  \/ CaptureEvict
  \/ CaptureReplace
  \/ CommandProcessor

SpecRelay == Init /\ [][NextRelay]_vars
====
